---- MODULE Spec2Model ----
(***************************************************************************)
(* Model of the federated training engine of                               *)
(* distributed-learning-contributivity: fl_training.compute_test_score and *)
(* compute_test_score_for_single_node.                                     *)
(*                                                                         *)
(* A model parameter snapshot is abstracted to one number (a constant      *)
(* tensor); an aggregated snapshot is the exact rational mean of the       *)
(* partner snapshots, kept as a reduced fraction.  Training and evaluation *)
(* are opaque Keras calls: their results are chosen from bounded sets.     *)
(* The accuracies of the in-loop evaluations (global_val_acc) and the      *)
(* per-node validation accuracies (score_matrix) only feed the saved plots *)
(* and are left out.                                                       *)
(*                                                                         *)
(* Further specifications cover mplc.scenario.Scenario (its constructor,   *)
(* run and to_dataframe) and the contributivity estimator it calls (exact  *)
(* Shapley values and the characteristic-function cache).  While one part  *)
(* is examined the variables of the others stay at their idle values.      *)
(***************************************************************************)
EXTENDS Integers, Sequences, FiniteSets, Bags, TLC

\* ---------------------------------------------------------------- bounds
MaxNodes == 2
MaxEpochs == 4
MaxLoss == 1
MaxAcc == 1
MaxWeight == 1
MaxSnapshot == 3
MaxAggNodes == 3
MaxPartners == 2
MaxMethods == 2
MaxRuns == 2
MaxSamples == 13
MaxShapleyN == 3
MaxFreePartners == 2
MaxCachePartners == 4
MaxCalls == 2
MaxScore == 1
MaxMinute == 1
MaxBis == 1
MaxExperiments == 2
MaxRepeats == 2
MaxScenarios == 2
MaxCombos == 2
MaxEntries == 2
MaxValues == 2

\* constants.PATIENCE, read at fl_training.py:146 (spec: default 2)
PATIENCE == 2

\* the data volumes of the aggregation scenario (spec section 8)
DataVolumes == {100, 200, 300}

VARIABLES
  \* arguments of compute_test_score
  nodes_count, epoch_count, is_early_stopping,
  \* control state
  pc, epoch, node_index,
  \* locals of compute_test_score
  model_list, new_weights, aggregated_model, final_model,
  global_val_loss, model_evaluation, test_score,
  \* local of compute_test_score_for_single_node
  model,
  \* history of the calls made (what each call read, how often it ran)
  model_epoch, start_weights, fit_calls, fit_epochs, last_fit,
  agg_inputs, agg_calls, early_stopped, inloop_eval_data, final_eval_data,
  evaluated_model,
  \* the aggregation step in isolation
  agg_node_weights, agg_data_volume, agg_result

ctlVars == <<nodes_count, epoch_count, is_early_stopping, pc, epoch, node_index>>
locVars == <<model_list, new_weights, aggregated_model, final_model,
             global_val_loss, model_evaluation, test_score, model>>
histVars == <<model_epoch, start_weights, fit_calls, fit_epochs, last_fit,
              agg_inputs, agg_calls, early_stopped, inloop_eval_data,
              final_eval_data, evaluated_model>>
aggVars == <<agg_node_weights, agg_data_volume, agg_result>>

VARIABLES
  \* arguments of Scenario(...) and the outcome of the data split
  from_config, kwargs, partners_count, amounts_per_partner,
  multi_partner_learning_approach, aggregation_weighting,
  epoch_count_arg, minibatch_count_arg, gradient_updates_per_pass_count,
  methods_arg, is_quick_demo, save_path, split_sizes,
  \* attributes of the Scenario object
  partners_list, scenario_epoch_count, minibatch_count,
  contributivity_methods, contributivity_list, mpl_kwargs, mpl,
  \* position in __init__ / run, the exception raised, the save folder on disk
  sc_pc, sc_error, folder_exists, run_count, method_index, contrib_calls,
  \* the rows returned by to_dataframe
  df

argVars == <<from_config, kwargs, partners_count, amounts_per_partner,
             multi_partner_learning_approach, aggregation_weighting,
             epoch_count_arg, minibatch_count_arg,
             gradient_updates_per_pass_count, methods_arg, is_quick_demo,
             save_path, split_sizes>>
attrVars == <<partners_list, scenario_epoch_count, minibatch_count,
              contributivity_methods, contributivity_list, mpl_kwargs, mpl>>
runVars == <<sc_pc, sc_error, folder_exists, run_count, method_index,
             contrib_calls>>
scnVars == <<argVars, attrVars, runVars, df>>

VARIABLES
  \* exact Shapley: the number of partners, the characteristic function v,
  \* the values computed and the position of the computation
  shapley_n, characteristic, shapley_values, shapley_pc,
  \* the characteristic-function cache of the estimator in use
  cache_n, requests_from, pending, charac_cache, in_progress, trainings,
  last_answer, call_count

shapVars == <<shapley_n, characteristic, shapley_values, shapley_pc>>
cacheVars == <<cache_n, requests_from, pending, charac_cache, in_progress,
               trainings, last_answer, call_count>>

VARIABLES
  \* the Experiment object
  exp_name, nb_repeats, scenarios_list, experiment_path,
  \* position in the Experiment method being executed, the exception raised
  exp_pc, exp_error, candidate_path, return_to, exp_params_list, config_index,
  repeat_idx, scenario_idx,
  \* the experiments folder on disk, the clock (in minutes), results.csv
  folders, now, results_csv,
  \* history: Experiment objects made, paths returned, last add_scenario, runs
  exp_count, path_log, last_add, run_log,
  \* Scenario.copy: attributes set on the original from outside, the keyword
  \* arguments of copy, the copy obtained
  outside_attrs, copy_kwargs, copy_pc, the_copy, copy_error,
  \* get_scenario_params_list: its argument, its result
  config, scenario_params_list, cfg_pc, cfg_error

expVars == <<exp_name, nb_repeats, scenarios_list, experiment_path, exp_pc,
             exp_error, candidate_path, return_to, exp_params_list,
             config_index, repeat_idx, scenario_idx, folders, now, results_csv,
             exp_count, path_log, last_add, run_log>>
copyVars == <<outside_attrs, copy_kwargs, copy_pc, the_copy, copy_error>>
cfgVars == <<config, scenario_params_list, cfg_pc, cfg_error>>
moreVars == <<expVars, copyVars, cfgVars>>

engineVars == <<ctlVars, locVars, histVars, aggVars>>
extVars == <<scnVars, shapVars, cacheVars, moreVars>>
vars == <<engineVars, extVars>>

\* ------------------------------------------------------------- values
\* Python's None for a model slot / a score not yet computed
None == -1

\* a weight snapshot that does not exist (no model / not yet aggregated)
NoWeights == [num |-> 0, den |-> 0]

\* the weights of utils.generate_new_cnn_model() before any set_weights
Fresh == [num |-> -1, den |-> 0]

NoEvaluation == [loss |-> None, acc |-> None]

Nodes == 1..nodes_count
Losses == 0..MaxLoss
Accs == 0..MaxAcc
Weights == 0..MaxWeight

RECURSIVE GCD(_, _)
GCD(a, b) == IF b = 0 THEN a ELSE GCD(b, a % b)

\* the rational n/d in lowest terms
Frac(n, d) == LET g == GCD(n, d) IN [num |-> n \div g, den |-> d \div g]

\* an integer snapshot as a rational
Whole(w) == [num |-> w, den |-> 1]

RECURSIVE SumTo(_, _)
SumTo(f, n) == IF n = 0 THEN 0 ELSE f[n] + SumTo(f, n - 1)

\* np.array(weights_).mean(axis=0) over the models of model_list
Mean(ws, n) == Frac(SumTo(ws, n), n)

\* the weights given to final_model.set_weights
FinalWeights_stale(ml, nw, n) == IF nw = NoWeights THEN Mean(ml, n) ELSE nw
FinalWeights(ml, nw, n) == Mean(ml, n)

\* Python's s[-k] on a list
FromEnd(s, k) == s[Len(s) - k + 1]

\* the early-stopping test, evaluated after the current loss was appended
EarlyStop_always(es, e, loss, losses) == e >= PATIENCE /\ loss > FromEnd(losses, PATIENCE)
EarlyStop(es, e, loss, losses) == es /\ e >= PATIENCE /\ loss > FromEnd(losses, PATIENCE)

\* nodes_count == 1
IsSingleNode_never(n) == n = 0
IsSingleNode(n) == n = 1

\* for epoch in range(epochs): is there an iteration after epoch e
HasNextEpoch_extra(e, n) == e + 1 <= n
HasNextEpoch(e, n) == e + 1 < n

\* the weights a node model starts its local pass from
NodeStart_fresh(e, nw) == Fresh
NodeStart(e, nw) == IF e = 0 THEN Fresh ELSE nw

\* the slot of model_list that receives the trained node model
TargetSlot_first(i) == 1
TargetSlot(i) == i

\* model_list after an aggregation: the averaged weights are set on a model
\* made by utils.generate_new_cnn_model(); the node models are only read
AfterAggregation_inplace(ml, nw) == [ml EXCEPT ![1] = nw.num \div nw.den]
AfterAggregation(ml, nw) == ml

\* ----------------------------------------------------- scenario values
\* amounts_per_partner are held in quarters: the 1 of np.sum(...) != 1
WholeAmount == 4
AmountChoices == {1, 2, 3, 4}

\* the values forced by is_quick_demo
QUICK_DEMO_EPOCH_COUNT == 3
QUICK_DEMO_MINIBATCH_COUNT == 2

\* constants.MAX_BATCH_SIZE, scaled down
MAX_BATCH_SIZE == 3

\* the keys of MULTI_PARTNER_LEARNING_APPROACHES, of AGGREGATORS and the
\* names of constants.CONTRIBUTIVITY_METHODS
MULTI_PARTNER_LEARNING_APPROACHES == {"fedavg", "seq-pure", "seq-with-final-agg", "seqavg"}
AGGREGATORS == {"uniform", "data-volume"}
CONTRIBUTIVITY_METHODS == {"Shapley values", "Independent scores"}

\* a keyword name is a sequence of pieces; the piece "mpl_" stands for an
\* occurrence of the substring 'mpl_' in the name
params_known ==
  { <<n>> : n \in {"dataset", "dataset_name", "dataset_proportion", "val_set",
                   "test_set", "contributivity_methods",
                   "multi_partner_learning_approach", "aggregation_weighting",
                   "partners_count", "amounts_per_partner",
                   "corruption_parameters", "samples_split_option",
                   "samples_split_configuration",
                   "gradient_updates_per_pass_count", "epoch_count",
                   "minibatch_count", "is_early_stopping", "init_model_from",
                   "is_quick_demo", "save_path", "scenario_name",
                   "repeat_count"} }

\* x.startswith('mpl_')
StartsWithMpl(x) == Len(x) > 0 /\ x[1] = "mpl_"

\* the names of kwargs that are neither known nor prefixed
unrecognised_parameters(kw) ==
  {x \in kw : x \notin params_known /\ ~StartsWithMpl(x)}

\* key.replace('mpl_', ''): every occurrence is removed
StrReplaceMpl(key) == SelectSeq(key, LAMBDA piece : piece # "mpl_")

\* self.mpl_kwargs as a set of <<forwarded name, keyword it came from>>
MplKwargs(kw) == {<<StrReplaceMpl(key), key>> : key \in {x \in kw : StartsWithMpl(x)}}

RECURSIVE SeqSum(_)
SeqSum(q) == IF q = <<>> THEN 0 ELSE Head(q) + SeqSum(Tail(q))

NoError == [type |-> "none", names |-> {}]
Raised(t) == [type |-> t, names |-> {}]

\* the checks of amounts_per_partner, in the order of the constructor
PartnersConfigError(amounts, n) ==
  IF SeqSum(amounts) # WholeAmount THEN "ValueError"
  ELSE IF Len(amounts) # n THEN "AttributeError"
  ELSE "none"

\* the look-ups and assertions on the learning configuration, in order
LearningConfigError_noassert(approach, weighting, e, mb, gu) ==
  IF approach \notin MULTI_PARTNER_LEARNING_APPROACHES THEN "KeyError"
  ELSE IF weighting \notin AGGREGATORS THEN "ValueError"
  ELSE "none"
LearningConfigError(approach, weighting, e, mb, gu) ==
  IF approach \notin MULTI_PARTNER_LEARNING_APPROACHES THEN "KeyError"
  ELSE IF weighting \notin AGGREGATORS THEN "ValueError"
  ELSE IF ~(e > 0) \/ ~(mb > 0) \/ ~(gu > 0) THEN "AssertionError"
  ELSE "none"

\* the validation of the requested contributivity methods
MethodsError(methods) ==
  IF \E k \in 1..Len(methods) : methods[k] \notin CONTRIBUTIVITY_METHODS
  THEN "Exception" ELSE "none"

\* a Partner(i, ...) as constructed: no data and no batch size yet
NewPartner(i) == [id |-> i, x_train |-> None, batch_size |-> None]

\* instantiate_scenario_partners on the current partners_list
InstantiatePartners_again(pl, n) ==
  [raised |-> FALSE, list |-> [i \in 1..n |-> NewPartner(i - 1)]]
InstantiatePartners(pl, n) ==
  IF Len(pl) > 0 THEN [raised |-> TRUE, list |-> pl]
  ELSE [raised |-> FALSE, list |-> [i \in 1..n |-> NewPartner(i - 1)]]

\* np.clip(x, lo, hi)
Clip(x, lo, hi) == IF x < lo THEN lo ELSE IF x > hi THEN hi ELSE x

\* the batch size compute_batch_sizes gives a partner holding len samples
BatchSize_unclipped(n, len, mb, gu) ==
  IF n = 1 THEN len \div gu ELSE len \div (mb * gu)
BatchSize(n, len, mb, gu) ==
  IF n = 1 THEN Clip(len \div gu, 1, MAX_BATCH_SIZE)
  ELSE Clip(len \div (mb * gu), 1, MAX_BATCH_SIZE)

\* the estimator behind compute_contributivity refuses fewer than 2 partners
InsufficientPartners(n) == n < 2

\* ------------------------------------------------------------ engine
\* the state at the call of compute_test_score(node_list, epoch_count, ...)
CallState ==
  /\ pc = "start" /\ epoch = None /\ node_index = 0
  /\ model_list = <<>> /\ new_weights = NoWeights
  /\ aggregated_model = NoWeights /\ final_model = NoWeights
  /\ global_val_loss = <<>> /\ model_evaluation = NoEvaluation
  /\ test_score = None /\ model = NoWeights
  /\ model_epoch = <<>> /\ start_weights = <<>> /\ fit_calls = <<>>
  /\ fit_epochs = 0 /\ last_fit = [node |-> 0, weights |-> None]
  /\ agg_inputs = <<>> /\ agg_calls = 0 /\ early_stopped = FALSE
  /\ inloop_eval_data = "none" /\ final_eval_data = "none"
  /\ evaluated_model = NoWeights

AggIdle ==
  /\ agg_node_weights = <<>> /\ agg_data_volume = <<>> /\ agg_result = NoWeights

\* a Scenario object on which __init__ has not yet assigned anything
Unconstructed ==
  /\ partners_list = <<>> /\ scenario_epoch_count = None
  /\ minibatch_count = None /\ contributivity_methods = <<>>
  /\ contributivity_list = <<>> /\ mpl_kwargs = {} /\ mpl = "none"
  /\ sc_error = NoError /\ folder_exists = FALSE /\ run_count = 0
  /\ method_index = 0 /\ contrib_calls = 0 /\ df = <<>>

\* the arguments of one call Scenario(...), and what the split will hand out
ArgsAre(a) ==
  /\ from_config = a.from_config /\ kwargs = a.kwargs
  /\ partners_count = a.partners_count
  /\ amounts_per_partner = a.amounts_per_partner
  /\ multi_partner_learning_approach = a.multi_partner_learning_approach
  /\ aggregation_weighting = a.aggregation_weighting
  /\ epoch_count_arg = a.epoch_count
  /\ minibatch_count_arg = a.minibatch_count
  /\ gradient_updates_per_pass_count = a.gradient_updates_per_pass_count
  /\ methods_arg = a.contributivity_methods
  /\ is_quick_demo = a.is_quick_demo /\ save_path = a.save_path
  /\ split_sizes = a.split_sizes

\* a valid two-partner scenario with the defaults of the signature
DefaultArgs ==
  [from_config |-> FALSE, kwargs |-> {}, partners_count |-> 2,
   amounts_per_partner |-> <<2, 2>>,
   multi_partner_learning_approach |-> "fedavg",
   aggregation_weighting |-> "data-volume", epoch_count |-> 1,
   minibatch_count |-> 1, gradient_updates_per_pass_count |-> 1,
   contributivity_methods |-> <<>>, is_quick_demo |-> FALSE,
   save_path |-> FALSE, split_sizes |-> <<8, 8>>]

\* no contributivity estimation is in progress
NoAnswer == [key |-> <<>>, source |-> "none"]
ShapleyIdle ==
  /\ shapley_n = 0 /\ characteristic = <<>> /\ shapley_values = <<>>
  /\ shapley_pc = "idle"
CacheIdle ==
  /\ cache_n = 0 /\ requests_from = "none" /\ pending = <<>>
  /\ charac_cache = {} /\ in_progress = <<>>
  /\ trainings = EmptyBag /\ last_answer = NoAnswer /\ call_count = 0
EstimatorIdle == ShapleyIdle /\ CacheIdle

\* a path of the experiments folder: name + "_" + timestamp, then "_bis" bis times
Path(n, m, b) == [name |-> n, minute |-> m, bis |-> b]

\* an attribute that was never assigned (reading it raises AttributeError)
Unset == Path("unset", 0, 0)

NoAdd == [kind |-> "none", appended |-> FALSE, raised |-> "none"]

\* no Experiment exists, nothing is being copied, no config is being expanded
ExperimentIdle ==
  /\ exp_name = "" /\ nb_repeats = 0 /\ scenarios_list = <<>>
  /\ experiment_path = Unset /\ exp_pc = "idle" /\ exp_error = "none"
  /\ candidate_path = Unset /\ return_to = "idle" /\ exp_params_list = <<>>
  /\ config_index = 0 /\ repeat_idx = 0 /\ scenario_idx = 0
  /\ folders = {} /\ now = 0 /\ results_csv = <<>>
  /\ exp_count = 0 /\ path_log = <<>> /\ last_add = NoAdd /\ run_log = <<>>
CopyIdle ==
  /\ outside_attrs = {} /\ copy_kwargs = {} /\ copy_pc = "idle"
  /\ the_copy = <<>> /\ copy_error = "none"
ConfigIdle ==
  /\ config = <<>> /\ scenario_params_list = <<>> /\ cfg_pc = "idle"
  /\ cfg_error = "none"
MoreIdle == ExperimentIdle /\ CopyIdle /\ ConfigIdle

\* no Scenario is being built while the training engine is examined
ScenarioIdle ==
  /\ ArgsAre(DefaultArgs) /\ Unconstructed /\ sc_pc = "idle"

\* no training call is in progress while a Scenario is examined
EngineIdle ==
  /\ nodes_count = 1 /\ epoch_count = 1 /\ is_early_stopping = FALSE
  /\ CallState /\ AggIdle

Init ==
  /\ MoreIdle
  /\ nodes_count \in 1..MaxNodes
  /\ epoch_count \in 1..MaxEpochs
  /\ is_early_stopping \in BOOLEAN
  /\ CallState
  /\ AggIdle
  /\ ScenarioIdle
  /\ EstimatorIdle

\* compute_test_score_for_single_node: generate the model and fit it
SingleNodeFit ==
  /\ pc = "start" /\ IsSingleNode(nodes_count)
  /\ \E w \in Weights : model' = Whole(w)
  /\ fit_calls' = [i \in Nodes |-> IF i = 1 THEN 1 ELSE 0]
  /\ fit_epochs' = epoch_count
  /\ start_weights' = [i \in Nodes |-> Fresh]
  /\ pc' = "single_eval"
  /\ UNCHANGED <<nodes_count, epoch_count, is_early_stopping, epoch, node_index,
                 model_list, new_weights, aggregated_model, final_model,
                 global_val_loss, model_evaluation, test_score,
                 model_epoch, last_fit, agg_inputs, agg_calls, early_stopped,
                 inloop_eval_data, final_eval_data, evaluated_model, aggVars, extVars>>

\* compute_test_score_for_single_node: evaluate on the node's test data
SingleNodeEvaluate ==
  /\ pc = "single_eval"
  /\ \E loss \in Losses, acc \in Accs :
       /\ model_evaluation' = [loss |-> loss, acc |-> acc]
       /\ test_score' = acc
  /\ evaluated_model' = model
  /\ final_eval_data' = "node.x_test"
  /\ pc' = "done"
  /\ UNCHANGED <<nodes_count, epoch_count, is_early_stopping, epoch, node_index,
                 model_list, new_weights, aggregated_model, final_model,
                 global_val_loss, model, model_epoch, start_weights, fit_calls,
                 fit_epochs, last_fit, agg_inputs, agg_calls, early_stopped,
                 inloop_eval_data, aggVars, extVars>>

\* the else branch: the locals before the epoch loop
BeginFederated ==
  /\ pc = "start" /\ ~IsSingleNode(nodes_count)
  /\ model_list' = [i \in Nodes |-> None]
  /\ model_epoch' = [i \in Nodes |-> None]
  /\ start_weights' = [i \in Nodes |-> NoWeights]
  /\ fit_calls' = [i \in Nodes |-> 0]
  /\ global_val_loss' = <<>>
  /\ epoch' = 0
  /\ pc' = "epoch"
  /\ UNCHANGED <<nodes_count, epoch_count, is_early_stopping, node_index,
                 new_weights, aggregated_model, final_model, model_evaluation,
                 test_score, model, fit_epochs, last_fit, agg_inputs, agg_calls,
                 early_stopped, inloop_eval_data, final_eval_data,
                 evaluated_model, aggVars, extVars>>

\* aggregation phase of the first epoch: nothing to aggregate
FirstEpoch ==
  /\ pc = "epoch" /\ epoch = 0
  /\ pc' = "train" /\ node_index' = 1
  /\ UNCHANGED <<nodes_count, epoch_count, is_early_stopping, epoch, locVars,
                 histVars, aggVars, extVars>>

\* aggregation phase of a later epoch: average, evaluate, early-stopping test
AggregateAndEvaluate ==
  /\ pc = "epoch" /\ epoch > 0
  /\ IF \E i \in Nodes : model_list[i] = None
       THEN \* None.get_weights() raises AttributeError
            /\ pc' = "error"
            /\ UNCHANGED <<node_index, locVars, histVars>>
       ELSE \E loss \in Losses :
            /\ new_weights' = Mean(model_list, nodes_count)
            /\ aggregated_model' = new_weights'
            /\ agg_inputs' = model_epoch
            /\ agg_calls' = agg_calls + 1
            /\ model_evaluation' = [loss |-> loss, acc |-> None]
            /\ evaluated_model' = aggregated_model'
            /\ inloop_eval_data' = "x_test"
            /\ global_val_loss' = Append(global_val_loss, loss)
            /\ IF EarlyStop(is_early_stopping, epoch, loss, global_val_loss')
                 THEN /\ pc' = "final" /\ early_stopped' = TRUE
                      /\ UNCHANGED node_index
                 ELSE /\ pc' = "train" /\ node_index' = 1
                      /\ UNCHANGED early_stopped
            /\ model_list' = AfterAggregation(model_list, new_weights')
            /\ UNCHANGED <<final_model, test_score, model,
                           model_epoch, start_weights, fit_calls, fit_epochs,
                           last_fit, final_eval_data>>
  /\ UNCHANGED <<nodes_count, epoch_count, is_early_stopping, epoch, aggVars, extVars>>

\* training phase, one node: new model, averaged weights, one local epoch
TrainNode ==
  /\ pc = "train" /\ node_index \in Nodes
  /\ \E w \in Weights :
       /\ model_list' = [model_list EXCEPT ![TargetSlot(node_index)] = w]
       /\ last_fit' = [node |-> node_index, weights |-> w]
  /\ model_epoch' = [model_epoch EXCEPT ![TargetSlot(node_index)] = epoch]
  /\ start_weights' = [start_weights EXCEPT ![node_index] = NodeStart(epoch, new_weights)]
  /\ fit_calls' = [fit_calls EXCEPT ![node_index] = @ + 1]
  /\ fit_epochs' = 1
  /\ IF node_index < nodes_count
       THEN /\ node_index' = node_index + 1
            /\ UNCHANGED <<pc, epoch>>
       ELSE /\ node_index' = 0
            /\ IF HasNextEpoch(epoch, epoch_count)
                 THEN pc' = "epoch" /\ epoch' = epoch + 1
                 ELSE pc' = "final" /\ UNCHANGED epoch
  /\ UNCHANGED <<nodes_count, epoch_count, is_early_stopping, new_weights,
                 aggregated_model, final_model, global_val_loss,
                 model_evaluation, test_score, model, agg_inputs, agg_calls,
                 early_stopped, inloop_eval_data, final_eval_data,
                 evaluated_model, aggVars, extVars>>

\* final aggregation: average the models of model_list into final_model
FinalAggregation ==
  /\ pc = "final"
  /\ IF \E i \in Nodes : model_list[i] = None
       THEN /\ pc' = "error"
            /\ UNCHANGED <<new_weights, final_model, agg_inputs, agg_calls,
                           model_list>>
       ELSE /\ new_weights' = FinalWeights(model_list, new_weights, nodes_count)
            /\ final_model' = new_weights'
            /\ model_list' = AfterAggregation(model_list, new_weights')
            /\ agg_inputs' = model_epoch
            /\ agg_calls' = agg_calls + 1
            /\ pc' = "evaluate"
  /\ UNCHANGED <<nodes_count, epoch_count, is_early_stopping, epoch, node_index,
                 aggregated_model, global_val_loss, model_evaluation,
                 test_score, model, model_epoch, start_weights, fit_calls,
                 fit_epochs, last_fit, early_stopped, inloop_eval_data,
                 final_eval_data, evaluated_model, aggVars, extVars>>

\* evaluate final_model on the test data and return its accuracy
FinalEvaluate ==
  /\ pc = "evaluate"
  /\ \E loss \in Losses, acc \in Accs :
       /\ model_evaluation' = [loss |-> loss, acc |-> acc]
       /\ test_score' = acc
  /\ evaluated_model' = final_model
  /\ final_eval_data' = "x_test"
  /\ pc' = "done"
  /\ UNCHANGED <<nodes_count, epoch_count, is_early_stopping, epoch, node_index,
                 model_list, new_weights, aggregated_model, final_model,
                 global_val_loss, model, model_epoch, start_weights, fit_calls,
                 fit_epochs, last_fit, agg_inputs, agg_calls, early_stopped,
                 inloop_eval_data, aggVars, extVars>>

Next ==
  \/ SingleNodeFit
  \/ SingleNodeEvaluate
  \/ BeginFederated
  \/ FirstEpoch
  \/ AggregateAndEvaluate
  \/ TrainNode
  \/ FinalAggregation
  \/ FinalEvaluate

Spec == Init /\ [][Next]_vars

\* the calls are made one after the other by a single thread and each returns
FairSpec == Spec /\ WF_vars(Next)

\* ------------------------------------------- the aggregation step alone
\* partners with given data volumes holding given constant snapshots
AggInit ==
  /\ MoreIdle
  /\ nodes_count \in 2..MaxAggNodes
  /\ epoch_count = 1
  /\ is_early_stopping = FALSE
  /\ CallState
  /\ agg_node_weights \in [1..nodes_count -> 0..MaxSnapshot]
  /\ agg_data_volume \in [1..nodes_count -> DataVolumes]
  /\ agg_result = NoWeights
  /\ ScenarioIdle
  /\ EstimatorIdle

\* the averaging of the aggregation phase applied to these snapshots
Aggregate ==
  /\ agg_result = NoWeights
  /\ agg_result' = Mean(agg_node_weights, nodes_count)
  /\ UNCHANGED <<ctlVars, locVars, histVars, agg_node_weights, agg_data_volume,
                 extVars>>

AggNext == Aggregate

AggSpec == AggInit /\ [][AggNext]_vars

\* ----------------------------------------------------------- Scenario
SeqsUpTo(S, n) == UNION {[1..k -> S] : k \in 0..n}

\* the amounts that pass both checks for n partners
ValidAmounts(n) == {a \in [1..n -> AmountChoices] : SeqSum(a) = WholeAmount}

\* an even split of the training data, whatever the number of partners
EvenSplit(n) == [i \in 1..n |-> 8]

\* the start of a call Scenario(...) with arguments a
CallWith(a) ==
  /\ ArgsAre(a)
  /\ sc_pc = IF a.from_config THEN "config" ELSE "call"

\* calls that differ in the learning configuration
ConfigFamily ==
  \E n \in 1..2, ap \in {"fedavg", "not-an-approach"},
     ag \in {"uniform", "not-a-weighting"}, c \in [1..3 -> {0, 1}],
     ms \in SeqsUpTo(CONTRIBUTIVITY_METHODS \cup {"not-a-method"}, MaxMethods),
     q \in BOOLEAN :
    CallWith([DefaultArgs EXCEPT
                !.partners_count = n,
                !.amounts_per_partner = IF n = 1 THEN <<4>> ELSE <<2, 2>>,
                !.split_sizes = EvenSplit(n),
                !.multi_partner_learning_approach = ap,
                !.aggregation_weighting = ag,
                !.epoch_count = c[1], !.minibatch_count = c[2],
                !.gradient_updates_per_pass_count = c[3],
                !.contributivity_methods = ms, !.is_quick_demo = q])

\* calls that differ in the partners, made directly or from a config file
PartnersFamily ==
  \E fc \in BOOLEAN, n \in 0..MaxPartners,
     am \in SeqsUpTo(AmountChoices, MaxPartners),
     ms \in SeqsUpTo(CONTRIBUTIVITY_METHODS, MaxMethods), sp \in BOOLEAN :
    CallWith([DefaultArgs EXCEPT
                !.from_config = fc, !.partners_count = n,
                !.amounts_per_partner = am, !.split_sizes = EvenSplit(n),
                !.contributivity_methods = ms, !.save_path = sp])

\* extra keyword names: known, prefixed (one holding 'mpl_' twice), unknown
KwargNames ==
  {<<"repeat_count">>, <<"scenario_name">>, <<"mpl_", "lr">>,
   <<"mpl_", "sa", "mpl_", "rate">>, <<"experiment_path">>, <<"is_dry_run">>}

KwargsFamily ==
  \E kw \in SUBSET KwargNames : CallWith([DefaultArgs EXCEPT !.kwargs = kw])

\* calls that differ in what compute_batch_sizes reads
BatchFamily ==
  \E n \in 1..MaxPartners :
    \E sz \in [1..n -> 0..MaxSamples], mb \in 1..2, gu \in 1..2, q \in BOOLEAN :
      CallWith([DefaultArgs EXCEPT
                  !.partners_count = n,
                  !.amounts_per_partner = CHOOSE a \in ValidAmounts(n) : TRUE,
                  !.split_sizes = sz, !.minibatch_count = mb,
                  !.gradient_updates_per_pass_count = gu, !.is_quick_demo = q])

ScenarioInit ==
  /\ MoreIdle
  /\ EngineIdle
  /\ EstimatorIdle
  /\ Unconstructed
  /\ \/ ConfigFamily
     \/ PartnersFamily
     \/ KwargsFamily
     \/ BatchFamily

\* an exception leaves the call: nothing after the raise is executed
Fail(t, names) ==
  /\ sc_pc' = "raised"
  /\ sc_error' = [type |-> t, names |-> names]

\* utils.get_scenario_params_list: the length check on one combination
GetScenarioParams ==
  /\ sc_pc = "config"
  /\ IF partners_count # Len(amounts_per_partner)
     THEN Fail("Exception", {})
     ELSE sc_pc' = "call" /\ UNCHANGED sc_error
  /\ UNCHANGED <<argVars, attrVars, folder_exists, run_count, method_index,
                 contrib_calls, df, engineVars, moreVars, shapVars, cacheVars>>

\* Scenario.__init__: the check of the keyword names
InitCheckParams ==
  /\ sc_pc = "call"
  /\ IF unrecognised_parameters(kwargs) # {}
     THEN Fail("Exception", unrecognised_parameters(kwargs))
     ELSE sc_pc' = "partners" /\ UNCHANGED sc_error
  /\ UNCHANGED <<argVars, attrVars, folder_exists, run_count, method_index,
                 contrib_calls, df, engineVars, moreVars, shapVars, cacheVars>>

\* Scenario.__init__: partners_list = [], partners_count, amounts_per_partner
InitPartnersConfig ==
  /\ sc_pc = "partners"
  /\ partners_list' = <<>>
  /\ LET err == PartnersConfigError(amounts_per_partner, partners_count)
     IN IF err # "none" THEN Fail(err, {})
        ELSE sc_pc' = "learning" /\ UNCHANGED sc_error
  /\ UNCHANGED <<argVars, scenario_epoch_count, minibatch_count,
                 contributivity_methods, contributivity_list, mpl_kwargs, mpl,
                 folder_exists, run_count, method_index, contrib_calls, df,
                 engineVars, moreVars, shapVars, cacheVars>>

\* Scenario.__init__: mpl = None, the approach, the aggregation weighting and
\* the three counts
InitLearningConfig ==
  /\ sc_pc = "learning"
  /\ mpl' = "none"
  /\ LET err == LearningConfigError(multi_partner_learning_approach,
                                    aggregation_weighting, epoch_count_arg,
                                    minibatch_count_arg,
                                    gradient_updates_per_pass_count)
     IN IF err # "none"
        THEN Fail(err, {}) /\ UNCHANGED <<scenario_epoch_count, minibatch_count>>
        ELSE /\ scenario_epoch_count' = epoch_count_arg
             /\ minibatch_count' = minibatch_count_arg
             /\ sc_pc' = "methods" /\ UNCHANGED sc_error
  /\ UNCHANGED <<argVars, partners_list, contributivity_methods,
                 contributivity_list, mpl_kwargs, folder_exists, run_count,
                 method_index, contrib_calls, df, engineVars, moreVars, shapVars, cacheVars>>

\* Scenario.__init__: contributivity_list = [] and the requested methods
InitContributivityMethods ==
  /\ sc_pc = "methods"
  /\ contributivity_list' = <<>>
  /\ LET err == MethodsError(methods_arg)
     IN IF err # "none"
        THEN Fail(err, {}) /\ UNCHANGED contributivity_methods
        ELSE /\ contributivity_methods' = methods_arg
             /\ sc_pc' = "output" /\ UNCHANGED sc_error
  /\ UNCHANGED <<argVars, partners_list, scenario_epoch_count, minibatch_count,
                 mpl_kwargs, mpl, folder_exists, run_count, method_index,
                 contrib_calls, df, engineVars, moreVars, shapVars, cacheVars>>

\* Scenario.__init__: the quick-demo override, the names and the save folder,
\* and the options forwarded to the learning approach
InitQuickDemoAndOutput ==
  /\ sc_pc = "output"
  /\ IF is_quick_demo
     THEN /\ scenario_epoch_count' = QUICK_DEMO_EPOCH_COUNT
          /\ minibatch_count' = QUICK_DEMO_MINIBATCH_COUNT
     ELSE UNCHANGED <<scenario_epoch_count, minibatch_count>>
  /\ mpl_kwargs' = MplKwargs(kwargs)
  /\ sc_pc' = "provision"
  /\ UNCHANGED <<argVars, partners_list, contributivity_methods,
                 contributivity_list, mpl, sc_error, folder_exists, run_count,
                 method_index, contrib_calls, df, engineVars, moreVars, shapVars, cacheVars>>

\* instantiate_scenario_partners, called by __init__ and callable afterwards
InstantiateScenarioPartners ==
  /\ sc_pc \in {"provision", "constructed"}
  /\ LET r == InstantiatePartners(partners_list, partners_count)
     IN /\ partners_list' = r.list
        /\ IF r.raised
           THEN /\ sc_error' = Raised("AlreadyInitialized")
                /\ sc_pc' = IF sc_pc = "provision" THEN "raised" ELSE sc_pc
           ELSE /\ sc_pc' = IF sc_pc = "provision" THEN "split" ELSE sc_pc
                /\ UNCHANGED sc_error
  /\ UNCHANGED <<argVars, scenario_epoch_count, minibatch_count,
                 contributivity_methods, contributivity_list, mpl_kwargs, mpl,
                 folder_exists, run_count, method_index, contrib_calls, df,
                 engineVars, moreVars, shapVars, cacheVars>>

\* Scenario.__init__: split_data, compute_batch_sizes and the data alteration
ProvisionData ==
  /\ sc_pc = "split"
  /\ partners_list' =
       [i \in 1..Len(partners_list) |->
          [partners_list[i] EXCEPT
             !.x_train = split_sizes[i],
             !.batch_size = BatchSize(partners_count, split_sizes[i],
                                      minibatch_count,
                                      gradient_updates_per_pass_count)]]
  /\ sc_pc' = "constructed"
  /\ UNCHANGED <<argVars, scenario_epoch_count, minibatch_count,
                 contributivity_methods, contributivity_list, mpl_kwargs, mpl,
                 sc_error, folder_exists, run_count, method_index,
                 contrib_calls, df, engineVars, moreVars, shapVars, cacheVars>>

\* Scenario.run: the save folder, then the learning approach is built and fit
RunFit ==
  /\ sc_pc = "constructed"
  /\ run_count < MaxRuns
  /\ IF save_path /\ folder_exists
     THEN Fail("FileExistsError", {}) /\ UNCHANGED <<mpl, folder_exists, method_index>>
     ELSE /\ folder_exists' = save_path
          /\ mpl' = "fitted"
          /\ method_index' = 1
          /\ sc_pc' = "contributivity"
          /\ sc_error' = NoError
  /\ UNCHANGED <<argVars, partners_list, scenario_epoch_count, minibatch_count,
                 contributivity_methods, contributivity_list, mpl_kwargs,
                 run_count, contrib_calls, df, engineVars, moreVars, shapVars, cacheVars>>

\* contrib.compute_contributivity(method); self.append_contributivity(contrib):
\* the list after one pass, the call having returned (ok) or raised
AfterMethod_always(list, contrib, ok) == Append(list, contrib)
AfterMethod(list, contrib, ok) == IF ok THEN Append(list, contrib) ELSE list

\* Scenario.run: one pass of the loop over contributivity_methods
RunContributivity ==
  /\ sc_pc = "contributivity"
  /\ method_index <= Len(contributivity_methods)
  /\ contrib_calls' = contrib_calls + 1
  /\ \E ok \in BOOLEAN :
       LET contrib == [name |-> contributivity_methods[method_index],
                       run |-> run_count,
                       object |-> contrib_calls + 1]
           returned == ok /\ ~InsufficientPartners(partners_count)
       IN /\ contributivity_list' =
               AfterMethod(contributivity_list, contrib, returned)
          /\ IF InsufficientPartners(partners_count)
             THEN Fail("InsufficientPartners", {}) /\ UNCHANGED method_index
             ELSE IF ~ok
             THEN Fail("ComputeFailure", {}) /\ UNCHANGED method_index
             ELSE /\ method_index' = method_index + 1
                  /\ UNCHANGED <<sc_pc, sc_error>>
  /\ UNCHANGED <<argVars, partners_list, scenario_epoch_count, minibatch_count,
                 contributivity_methods, mpl_kwargs, mpl, folder_exists,
                 run_count, df, engineVars, moreVars, shapVars, cacheVars>>

\* Scenario.run: return 0
RunReturn ==
  /\ sc_pc = "contributivity"
  /\ method_index > Len(contributivity_methods)
  /\ run_count' = run_count + 1
  /\ sc_pc' = "constructed"
  /\ UNCHANGED <<argVars, attrVars, sc_error, folder_exists, method_index,
                 contrib_calls, df, engineVars, moreVars, shapVars, cacheVars>>

ScenarioNext ==
  \/ GetScenarioParams
  \/ InitCheckParams
  \/ InitPartnersConfig
  \/ InitLearningConfig
  \/ InitContributivityMethods
  \/ InitQuickDemoAndOutput
  \/ InstantiateScenarioPartners
  \/ ProvisionData
  \/ RunFit
  \/ RunContributivity
  \/ RunReturn

ScenarioSpec == ScenarioInit /\ [][ScenarioNext]_vars

\* ------------------------------------------------- exact Shapley values
\* the values a characteristic function takes
CharValues == {0, 1}

RECURSIVE Fact(_)
Fact(k) == IF k = 0 THEN 1 ELSE k * Fact(k - 1)

\* |S|! (n - |S| - 1)!, the weight of a subset S of the other partners; the
\* common divisor n! is left out, so values are held as multiples of 1/n!
ShapleyWeight_uniform(size, n) == Fact(n - 1)
ShapleyWeight(size, n) == Fact(size) * Fact(n - size - 1)

\* the weighted marginal contributions of partner i over the given subsets
RECURSIVE WeightedMarginals(_, _, _, _)
WeightedMarginals(i, n, v, subsets) ==
  IF subsets = {} THEN 0
  ELSE LET S == CHOOSE x \in subsets : TRUE
       IN ShapleyWeight(Cardinality(S), n) * (v[S \cup {i}] - v[S])
          + WeightedMarginals(i, n, v, subsets \ {S})

\* n! times the exact Shapley value of partner i
ShapleyValue(i, n, v) == WeightedMarginals(i, n, v, SUBSET ((1..n) \ {i}))

ShapleyInit ==
  /\ MoreIdle
  /\ EngineIdle /\ ScenarioIdle /\ CacheIdle
  /\ shapley_n \in 1..MaxShapleyN
  /\ characteristic \in [SUBSET (1..shapley_n) -> CharValues]
  /\ shapley_values = <<>>
  /\ shapley_pc = "partners"

\* the value of the next partner is computed from v
ShapleyPartner ==
  /\ shapley_pc = "partners"
  /\ shapley_values' =
       Append(shapley_values,
              ShapleyValue(Len(shapley_values) + 1, shapley_n, characteristic))
  /\ shapley_pc' = IF Len(shapley_values) + 1 = shapley_n THEN "done"
                   ELSE "partners"
  /\ UNCHANGED <<shapley_n, characteristic, engineVars, moreVars, scnVars, cacheVars>>

ShapleyNext == ShapleyPartner

ShapleySpec == ShapleyInit /\ [][ShapleyNext]_vars

\* ------------------------------------- the characteristic-function cache
\* the threads that evaluate coalitions for one estimator
Workers == 1..2
NotTraining == [busy |-> FALSE, key |-> <<>>]

\* the partner ids of a coalition given as a list
Members(q) == {q[k] : k \in 1..Len(q)}

RECURSIVE SortedSeq(_)
SortedSeq(S) ==
  IF S = {} THEN <<>>
  ELSE LET m == CHOOSE x \in S : \A y \in S : x <= y
       IN <<m>> \o SortedSeq(S \ {m})

\* the cache key of a requested coalition: its ids sorted, without duplicates
CacheKey_raw(q) == q
CacheKey(q) == SortedSeq(Members(q))

\* the cache of the Contributivity object made for the next method
NewEstimatorCache_shared(old) == old
NewEstimatorCache(old) == {}

\* the coalitions a caller may ask for: ids in any order, possibly repeated
RawCoalitions(n) == SeqsUpTo(1..n, n)

\* the requests of exact Shapley: for partner i and each subset S of the
\* others, v(S with i) and v(S)
RECURSIVE RequestsFor(_, _)
RequestsFor(i, subsets) ==
  IF subsets = {} THEN <<>>
  ELSE LET S == CHOOSE x \in subsets : TRUE
       IN <<SortedSeq(S) \o <<i>>, SortedSeq(S)>> \o RequestsFor(i, subsets \ {S})

RECURSIVE ExactShapleyRequests(_, _)
ExactShapleyRequests(i, n) ==
  IF i > n THEN <<>>
  ELSE RequestsFor(i, SUBSET ((1..n) \ {i})) \o ExactShapleyRequests(i + 1, n)

\* the first compute_contributivity call of a run, on a new estimator
CacheInit ==
  /\ MoreIdle
  /\ EngineIdle /\ ScenarioIdle /\ ShapleyIdle
  /\ \/ /\ requests_from = "any"
        /\ cache_n \in 1..MaxFreePartners
        /\ pending = <<>>
     \/ /\ requests_from = "shapley"
        /\ cache_n \in 1..MaxCachePartners
        /\ pending = ExactShapleyRequests(1, cache_n)
  /\ charac_cache = NewEstimatorCache({})
  /\ in_progress = [w \in Workers |-> NotTraining]
  /\ trainings = EmptyBag
  /\ last_answer = NoAnswer
  /\ call_count = 1

\* worker w asks for the value of coalition q
Serve(w, q) ==
  LET key == CacheKey(q)
  IN /\ \A o \in Workers : ~(in_progress[o].busy /\ in_progress[o].key = key)
     /\ IF key = <<>>
        THEN /\ last_answer' = [key |-> key, source |-> "defined"]
             /\ UNCHANGED <<in_progress, trainings>>
        ELSE IF key \in charac_cache
        THEN /\ last_answer' = [key |-> key, source |-> "cache"]
             /\ UNCHANGED <<in_progress, trainings>>
        ELSE /\ in_progress' = [in_progress EXCEPT ![w] = [busy |-> TRUE, key |-> key]]
             /\ trainings' = trainings (+) SetToBag({key})
             /\ UNCHANGED last_answer

Request(w) ==
  /\ ~in_progress[w].busy
  /\ IF requests_from = "shapley"
     THEN /\ pending # <<>>
          /\ Serve(w, Head(pending))
          /\ pending' = Tail(pending)
     ELSE /\ \E q \in RawCoalitions(cache_n) : Serve(w, q)
          /\ UNCHANGED pending
  /\ UNCHANGED <<cache_n, requests_from, charac_cache, call_count, engineVars, moreVars,
                 scnVars, shapVars>>

\* the training of a coalition ends: its value enters the cache
Finish(w) ==
  /\ in_progress[w].busy
  /\ charac_cache' = charac_cache \cup {in_progress[w].key}
  /\ last_answer' = [key |-> in_progress[w].key, source |-> "trained"]
  /\ in_progress' = [in_progress EXCEPT ![w] = NotTraining]
  /\ UNCHANGED <<cache_n, requests_from, pending, trainings, call_count,
                 engineVars, moreVars, scnVars, shapVars>>

\* Scenario.run goes on to its next method: a new Contributivity object
NewCall ==
  /\ call_count < MaxCalls
  /\ \A w \in Workers : ~in_progress[w].busy
  /\ pending = <<>>
  /\ call_count' = call_count + 1
  /\ charac_cache' = NewEstimatorCache(charac_cache)
  /\ trainings' = EmptyBag
  /\ last_answer' = NoAnswer
  /\ pending' = IF requests_from = "shapley"
                THEN ExactShapleyRequests(1, cache_n) ELSE <<>>
  /\ UNCHANGED <<cache_n, requests_from, in_progress, engineVars, moreVars, scnVars,
                 shapVars>>

CacheNext ==
  \/ \E w \in Workers : Request(w)
  \/ \E w \in Workers : Finish(w)
  \/ NewCall

CacheSpec == CacheInit /\ [][CacheNext]_vars

\* -------------------------------------------------------- to_dataframe
\* a value that a row does not carry (NaN in the data frame)
Missing == "nan"

\* the row appended for partner i (counted from 0) of contributivity result c
PartnerRow_shifted(c, i, n, amounts) ==
  [contributivity_method |-> c.name, partner_id |-> i,
   dataset_fraction_of_partner |-> amounts[i + 1],
   contributivity_score |-> c.contributivity_scores[((i + 1) % n) + 1],
   contributivity_std |-> c.scores_std[i + 1]]
PartnerRow(c, i, n, amounts) ==
  [contributivity_method |-> c.name, partner_id |-> i,
   dataset_fraction_of_partner |-> amounts[i + 1],
   contributivity_score |-> c.contributivity_scores[i + 1],
   contributivity_std |-> c.scores_std[i + 1]]

\* for i in range(self.partners_count): df = df.append(dict_results)
PartnerRows(c, n, amounts) == [j \in 1..n |-> PartnerRow(c, j - 1, n, amounts)]

\* for contrib in self.contributivity_list
RECURSIVE ContribRows(_, _, _)
ContribRows(clist, n, amounts) ==
  IF clist = <<>> THEN <<>>
  ELSE PartnerRows(Head(clist), n, amounts) \o ContribRows(Tail(clist), n, amounts)

\* the rows of the data frame to_dataframe returns
ToDataframeRows(clist, n, amounts) ==
  IF clist = <<>>
  THEN <<[contributivity_method |-> Missing, partner_id |-> Missing,
          dataset_fraction_of_partner |-> Missing,
          contributivity_score |-> Missing, contributivity_std |-> Missing]>>
  ELSE ContribRows(clist, n, amounts)

\* the contributivity results a finished run may hold for n partners
ContribResults(n) ==
  [name : CONTRIBUTIVITY_METHODS \cap {"Shapley values"},
   contributivity_scores : [1..n -> 0..MaxScore],
   scores_std : [1..n -> {0, 1}]]

\* a scenario whose run has returned, before its results are exported
DfInit ==
  /\ MoreIdle
  /\ EngineIdle /\ EstimatorIdle
  /\ \E n \in 1..MaxPartners : \E am \in ValidAmounts(n) :
       /\ ArgsAre([DefaultArgs EXCEPT !.partners_count = n,
                                      !.amounts_per_partner = am,
                                      !.split_sizes = EvenSplit(n)])
       /\ partners_list =
            [i \in 1..n |-> [NewPartner(i - 1) EXCEPT
                               !.x_train = EvenSplit(n)[i],
                               !.batch_size = BatchSize(n, EvenSplit(n)[i], 1, 1)]]
       /\ contributivity_list \in SeqsUpTo(ContribResults(n), 2)
  /\ scenario_epoch_count = 1 /\ minibatch_count = 1
  /\ contributivity_methods = [k \in 1..Len(contributivity_list) |-> contributivity_list[k].name]
  /\ mpl_kwargs = {} /\ mpl = "fitted"
  /\ sc_pc = "constructed" /\ sc_error = NoError /\ folder_exists = FALSE
  /\ run_count = 1 /\ method_index = Len(contributivity_list) + 1
  /\ contrib_calls = Len(contributivity_list)
  /\ df = <<>>

\* Scenario.to_dataframe
ToDataframe ==
  /\ sc_pc = "constructed" /\ mpl = "fitted"
  /\ df = <<>>
  /\ df' = ToDataframeRows(contributivity_list, partners_count, amounts_per_partner)
  /\ UNCHANGED <<argVars, attrVars, runVars, engineVars, moreVars, shapVars, cacheVars>>

DfNext == ToDataframe

DfSpec == DfInit /\ [][DfNext]_vars

\* --------------------------------------------------------- Experiment
\* the names an experiment is given; "" stands for experiment_name=None
ExpNames == {"exp"}

\* the folders another, earlier, experiment may have left on disk
PreExisting == {Path("exp", m, b) : m \in 0..MaxMinute, b \in 0..MaxBis}

\* experiment_path.exists()
PathExists_never(p, fs) == FALSE
PathExists(p, fs) == p \in fs

\* Path(str(experiment_path) + "_bis")
WithBis(p) == [p EXCEPT !.bis = @ + 1]

\* the methods class Scenario defines
ScenarioMethods ==
  {"__init__", "nb_samples_used", "final_relative_nb_samples", "copy",
   "log_scenario_description", "append_contributivity",
   "instantiate_scenario_partners", "split_data", "plot_data_distribution",
   "compute_batch_sizes", "apply_data_alteration_configuration",
   "to_dataframe", "run"}

\* the keywords init_experiment_from_config_file adds to a combination that
\* are not named parameters of Scenario.__init__ (scenario_id is one)
ConfigCallKwargs == {<<"experiment_path">>, <<"is_dry_run">>}

\* a combination of get_scenario_params_list: would Scenario accept it as is
Combos == [accepted : BOOLEAN]

\* the outcome of Scenario(**scenario_params, experiment_path=..., ...)
ScenarioCallError(combo, kw) ==
  IF unrecognised_parameters(kw) # {} THEN "Exception"
  ELSE IF ~combo.accepted THEN "ValueError"
  ELSE "none"

ExpInit ==
  /\ EngineIdle /\ ScenarioIdle /\ EstimatorIdle /\ CopyIdle /\ ConfigIdle
  /\ exp_name = "" /\ nb_repeats = 0 /\ scenarios_list = <<>>
  /\ experiment_path = Unset /\ exp_pc = "new" /\ exp_error = "none"
  /\ candidate_path = Unset /\ return_to = "idle" /\ exp_params_list = <<>>
  /\ config_index = 0 /\ repeat_idx = 0 /\ scenario_idx = 0
  /\ folders = {} /\ now = 0 /\ results_csv = <<>>
  /\ exp_count = 0 /\ path_log = <<>> /\ last_add = NoAdd /\ run_log = <<>>

\* what no action of the Experiment touches
ExpOthers == <<engineVars, scnVars, shapVars, cacheVars, copyVars, cfgVars>>

\* Experiment.__init__(experiment_name, nb_repeats)
ExperimentNew ==
  /\ exp_pc \in {"new", "ready", "done", "raised"}
  /\ exp_count < MaxExperiments
  /\ exp_count' = exp_count + 1
  /\ \E n \in ExpNames \cup {""}, r \in 1..MaxRepeats :
       /\ exp_name' = n
       /\ nb_repeats' = r
       /\ IF n # ""
          THEN /\ exp_pc' = "define_path"
               /\ candidate_path' = Path(n, now, 0)
               /\ return_to' = "ready"
          ELSE /\ exp_pc' = "ready"
               /\ UNCHANGED <<candidate_path, return_to>>
  /\ scenarios_list' = <<>>
  /\ experiment_path' = Unset
  /\ exp_error' = "none" /\ last_add' = NoAdd
  /\ run_log' = <<>> /\ results_csv' = <<>>
  /\ exp_params_list' = <<>> /\ config_index' = 0
  /\ UNCHANGED <<repeat_idx, scenario_idx, folders, now, path_log, ExpOthers>>

\* define_experiment_path: one pass of while experiment_path.exists()
DefinePathRename ==
  /\ exp_pc = "define_path"
  /\ PathExists(candidate_path, folders)
  /\ candidate_path' = WithBis(candidate_path)
  /\ UNCHANGED <<exp_name, nb_repeats, scenarios_list, experiment_path, exp_pc,
                 exp_error, return_to, exp_params_list, config_index,
                 repeat_idx, scenario_idx, folders, now, results_csv,
                 exp_count, path_log, last_add, run_log, ExpOthers>>

\* define_experiment_path: mkdir(parents=True, exist_ok=False) and return
DefinePathMkdir ==
  /\ exp_pc = "define_path"
  /\ ~PathExists(candidate_path, folders)
  /\ IF candidate_path \in folders
     THEN /\ exp_pc' = "raised" /\ exp_error' = "FileExistsError"
          /\ UNCHANGED <<folders, experiment_path, path_log>>
     ELSE /\ folders' = folders \cup {candidate_path}
          /\ experiment_path' = candidate_path
          /\ path_log' = Append(path_log, [path |-> candidate_path,
                                           minute |-> now,
                                           before |-> folders])
          /\ exp_pc' = return_to
          /\ UNCHANGED exp_error
  /\ UNCHANGED <<exp_name, nb_repeats, scenarios_list, candidate_path,
                 return_to, exp_params_list, config_index, repeat_idx,
                 scenario_idx, now, results_csv, exp_count, last_add, run_log,
                 ExpOthers>>

\* a minute goes by
Tick ==
  /\ exp_pc # "define_path"
  /\ now < MaxMinute
  /\ now' = now + 1
  /\ UNCHANGED <<exp_name, nb_repeats, scenarios_list, experiment_path, exp_pc,
                 exp_error, candidate_path, return_to, exp_params_list,
                 config_index, repeat_idx, scenario_idx, folders, results_csv,
                 exp_count, path_log, last_add, run_log, ExpOthers>>

\* the scenario as add_scenario leaves it
Added(id, path) == [scenario_id |-> id, experiment_path |-> path]

\* Experiment.add_scenario(scenario_to_add)
AddScenario ==
  /\ exp_pc = "ready"
  /\ Len(scenarios_list) < MaxScenarios
  /\ \E kind \in {"Scenario", "dict"} :
       IF kind = "Scenario"
       THEN IF experiment_path = Unset
            THEN /\ last_add' = [kind |-> kind, appended |-> FALSE,
                                 raised |-> "AttributeError"]
                 /\ UNCHANGED scenarios_list
            ELSE /\ scenarios_list' = Append(scenarios_list, Added(1, experiment_path))
                 /\ last_add' = [kind |-> kind, appended |-> TRUE, raised |-> "none"]
       ELSE /\ last_add' = [kind |-> kind, appended |-> FALSE, raised |-> "Exception"]
            /\ UNCHANGED scenarios_list
  /\ UNCHANGED <<exp_name, nb_repeats, experiment_path, exp_pc, exp_error,
                 candidate_path, return_to, exp_params_list, config_index,
                 repeat_idx, scenario_idx, folders, now, results_csv,
                 exp_count, path_log, run_log, ExpOthers>>

\* init_experiment_from_config_file: the name, the repeats, the folder and
\* the combinations of the config
InitFromConfig ==
  /\ exp_pc = "ready"
  /\ scenarios_list = <<>>
  /\ config_index = 0
  /\ \E n \in ExpNames, r \in 1..MaxRepeats, pl \in SeqsUpTo(Combos, MaxCombos) :
       /\ exp_name' = n
       /\ nb_repeats' = r
       /\ candidate_path' = Path(n, now, 0)
       /\ exp_params_list' = pl
  /\ exp_pc' = "define_path"
  /\ return_to' = "config"
  /\ config_index' = 1
  /\ UNCHANGED <<scenarios_list, experiment_path, exp_error, repeat_idx,
                 scenario_idx, folders, now, results_csv, exp_count, path_log,
                 last_add, run_log, ExpOthers>>

\* init_experiment_from_config_file: one pass of the loop over the
\* combinations, or its return
ConfigScenario ==
  /\ exp_pc = "config"
  /\ IF config_index > Len(exp_params_list)
     THEN /\ exp_pc' = "ready"
          /\ UNCHANGED <<scenarios_list, exp_error, config_index>>
     ELSE LET err == ScenarioCallError(exp_params_list[config_index],
                                       ConfigCallKwargs)
          IN IF err # "none"
             THEN /\ exp_pc' = "raised" /\ exp_error' = err
                  /\ UNCHANGED <<scenarios_list, config_index>>
             ELSE /\ scenarios_list' =
                       Append(scenarios_list, Added(config_index, experiment_path))
                  /\ config_index' = config_index + 1
                  /\ UNCHANGED <<exp_pc, exp_error>>
  /\ last_add' = IF scenarios_list' # scenarios_list
                 THEN [kind |-> "Scenario", appended |-> TRUE, raised |-> "none"]
                 ELSE last_add
  /\ UNCHANGED <<exp_name, nb_repeats, experiment_path, candidate_path,
                 return_to, exp_params_list, repeat_idx, scenario_idx, folders,
                 now, results_csv, exp_count, path_log, run_log, ExpOthers>>

\* run_experiment: the preliminary steps
RunExperimentStart ==
  /\ exp_pc = "ready"
  /\ IF experiment_path = Unset
     THEN /\ exp_pc' = "raised" /\ exp_error' = "AttributeError"
     ELSE /\ exp_pc' = "running" /\ UNCHANGED exp_error
  /\ repeat_idx' = 0
  /\ scenario_idx' = 0
  /\ UNCHANGED <<exp_name, nb_repeats, scenarios_list, experiment_path,
                 candidate_path, return_to, exp_params_list, config_index,
                 folders, now, results_csv, exp_count, path_log, last_add,
                 run_log, ExpOthers>>

\* run_experiment: the body of the loop over scenarios_list
RunExperimentScenario ==
  /\ exp_pc = "running"
  /\ repeat_idx < nb_repeats
  /\ scenario_idx < Len(scenarios_list)
  /\ IF "convert_from_dry_run_to_run" \notin ScenarioMethods
     THEN /\ exp_pc' = "raised" /\ exp_error' = "AttributeError"
          /\ UNCHANGED <<run_log, results_csv, scenario_idx>>
     ELSE /\ run_log' = Append(run_log, <<repeat_idx, scenario_idx>>)
          /\ results_csv' = Append(results_csv,
                                   [header |-> results_csv = <<>>,
                                    repeat_index |-> repeat_idx,
                                    scenario_index |-> scenario_idx])
          /\ scenario_idx' = scenario_idx + 1
          /\ UNCHANGED <<exp_pc, exp_error>>
  /\ UNCHANGED <<exp_name, nb_repeats, scenarios_list, experiment_path,
                 candidate_path, return_to, exp_params_list, config_index,
                 repeat_idx, folders, now, exp_count, path_log, last_add,
                 ExpOthers>>

\* run_experiment: the scenarios of a repeat are exhausted
RunExperimentNextRepeat ==
  /\ exp_pc = "running"
  /\ repeat_idx < nb_repeats
  /\ scenario_idx >= Len(scenarios_list)
  /\ repeat_idx' = repeat_idx + 1
  /\ scenario_idx' = 0
  /\ UNCHANGED <<exp_name, nb_repeats, scenarios_list, experiment_path, exp_pc,
                 exp_error, candidate_path, return_to, exp_params_list,
                 config_index, folders, now, results_csv, exp_count, path_log,
                 last_add, run_log, ExpOthers>>

\* run_experiment: the repeats are exhausted
RunExperimentReturn ==
  /\ exp_pc = "running"
  /\ repeat_idx >= nb_repeats
  /\ exp_pc' = "done"
  /\ UNCHANGED <<exp_name, nb_repeats, scenarios_list, experiment_path,
                 exp_error, candidate_path, return_to, exp_params_list,
                 config_index, repeat_idx, scenario_idx, folders, now,
                 results_csv, exp_count, path_log, last_add, run_log,
                 ExpOthers>>

ExpNext ==
  \/ ExperimentNew
  \/ DefinePathRename
  \/ DefinePathMkdir
  \/ Tick
  \/ AddScenario
  \/ InitFromConfig
  \/ ConfigScenario
  \/ RunExperimentStart
  \/ RunExperimentScenario
  \/ RunExperimentNextRepeat
  \/ RunExperimentReturn

ExpSpec == ExpInit /\ [][ExpNext]_vars

\* define_experiment_path on a disk that earlier experiments have used
PathInit ==
  /\ EngineIdle /\ ScenarioIdle /\ EstimatorIdle /\ CopyIdle /\ ConfigIdle
  /\ exp_name = "" /\ nb_repeats = 0 /\ scenarios_list = <<>>
  /\ experiment_path = Unset /\ exp_pc = "new" /\ exp_error = "none"
  /\ candidate_path = Unset /\ return_to = "idle" /\ exp_params_list = <<>>
  /\ config_index = 0 /\ repeat_idx = 0 /\ scenario_idx = 0
  /\ folders \in SUBSET PreExisting /\ now = 0 /\ results_csv = <<>>
  /\ exp_count = 0 /\ path_log = <<>> /\ last_add = NoAdd /\ run_log = <<>>

PathNext ==
  \/ ExperimentNew
  \/ DefinePathRename
  \/ DefinePathMkdir
  \/ Tick

\* a call that has begun goes on: the interpreter does not stop inside
\* define_experiment_path
PathSpec ==
  /\ PathInit /\ [][PathNext]_vars
  /\ WF_vars(DefinePathRename) /\ WF_vars(DefinePathMkdir)

\* ------------------------------------------------------- Scenario.copy
\* the keyword arguments of copy(**kwargs): which are given, and their values
NoOverride == [given |-> {}, is_quick_demo |-> FALSE, epoch_count |-> 1]
CopyOverrides ==
  {NoOverride}
    \cup {[NoOverride EXCEPT !.given = {"is_quick_demo"}, !.is_quick_demo = b] :
            b \in BOOLEAN}
    \cup {[NoOverride EXCEPT !.given = {"epoch_count"}, !.epoch_count = e] :
            e \in 1..2}

\* the keys of self.__dict__ left after the deletions that are not named
\* parameters of __init__, so that Scenario(**params) receives them in
\* kwargs: repeat_count, mpl_kwargs and whatever was assigned from outside
CopyParams(attrs) ==
  {<<"repeat_count">>, <<"mpl_", "kwargs">>} \cup {<<a>> : a \in attrs}

\* params.update(kwargs): the value the constructor receives
Overridden(kw, name, own) == IF name \in kw.given THEN kw[name] ELSE own

\* the exception copy(**kw) raises, or "none"
CopyError(kw, attrs) ==
  IF "is_quick_demo" \in kw.given /\ kw.is_quick_demo # is_quick_demo
  THEN "ValueError"
  ELSE IF unrecognised_parameters(CopyParams(attrs)) # {} THEN "Exception"
  ELSE IF PartnersConfigError(amounts_per_partner, partners_count) # "none"
  THEN PartnersConfigError(amounts_per_partner, partners_count)
  ELSE IF LearningConfigError(multi_partner_learning_approach,
                              aggregation_weighting,
                              Overridden(kw, "epoch_count", scenario_epoch_count),
                              minibatch_count,
                              gradient_updates_per_pass_count) # "none"
  THEN LearningConfigError(multi_partner_learning_approach,
                           aggregation_weighting,
                           Overridden(kw, "epoch_count", scenario_epoch_count),
                           minibatch_count, gradient_updates_per_pass_count)
  ELSE MethodsError(contributivity_methods)

\* the Scenario that Scenario(**params) builds
CopyOf(kw, attrs) ==
  LET q == Overridden(kw, "is_quick_demo", is_quick_demo)
  IN [partners_count |-> partners_count,
      amounts_per_partner |-> amounts_per_partner,
      aggregation_weighting |-> aggregation_weighting,
      epoch_count |-> IF q THEN QUICK_DEMO_EPOCH_COUNT
                      ELSE Overridden(kw, "epoch_count", scenario_epoch_count),
      minibatch_count |-> IF q THEN QUICK_DEMO_MINIBATCH_COUNT
                          ELSE minibatch_count,
      contributivity_methods |-> contributivity_methods,
      is_quick_demo |-> q,
      mpl_kwargs |-> MplKwargs(CopyParams(attrs))]

\* a Scenario that has just been constructed, not yet added to an experiment
CopyInit ==
  /\ EngineIdle /\ EstimatorIdle /\ ExperimentIdle /\ ConfigIdle
  /\ \E kw \in SUBSET {<<"repeat_count">>, <<"mpl_", "lr">>}, q \in BOOLEAN,
        ms \in SeqsUpTo(CONTRIBUTIVITY_METHODS, 1), ec \in 1..2 :
       /\ ArgsAre([DefaultArgs EXCEPT !.kwargs = kw, !.is_quick_demo = q,
                                      !.contributivity_methods = ms,
                                      !.epoch_count = ec])
       /\ scenario_epoch_count = IF q THEN QUICK_DEMO_EPOCH_COUNT ELSE ec
       /\ minibatch_count = IF q THEN QUICK_DEMO_MINIBATCH_COUNT ELSE 1
       /\ contributivity_methods = ms
       /\ mpl_kwargs = MplKwargs(kw)
       /\ partners_list =
            [i \in 1..2 |-> [NewPartner(i - 1) EXCEPT
                               !.x_train = EvenSplit(2)[i],
                               !.batch_size =
                                  BatchSize(2, EvenSplit(2)[i],
                                            IF q THEN QUICK_DEMO_MINIBATCH_COUNT
                                            ELSE 1, 1)]]
  /\ contributivity_list = <<>> /\ mpl = "none"
  /\ sc_pc = "constructed" /\ sc_error = NoError /\ folder_exists = FALSE
  /\ run_count = 0 /\ method_index = 0 /\ contrib_calls = 0 /\ df = <<>>
  /\ outside_attrs = {} /\ copy_kwargs = NoOverride /\ copy_pc = "idle"
  /\ the_copy = <<>> /\ copy_error = "none"

\* Experiment.add_scenario: scenario_to_add.experiment_path = ...
AttachExperimentPath ==
  /\ sc_pc = "constructed"
  /\ "experiment_path" \notin outside_attrs
  /\ outside_attrs' = outside_attrs \cup {"experiment_path"}
  /\ UNCHANGED <<copy_kwargs, copy_pc, the_copy, copy_error, engineVars,
                 scnVars, shapVars, cacheVars, expVars, cfgVars>>

\* Scenario.copy(**kw)
Copy ==
  /\ sc_pc \in {"constructed", "raised"}
  /\ \E kw \in CopyOverrides :
       /\ copy_kwargs' = kw
       /\ copy_error' = CopyError(kw, outside_attrs)
       /\ IF CopyError(kw, outside_attrs) # "none"
          THEN copy_pc' = "raised" /\ the_copy' = <<>>
          ELSE copy_pc' = "returned" /\ the_copy' = CopyOf(kw, outside_attrs)
  /\ UNCHANGED <<outside_attrs, engineVars, scnVars, shapVars, cacheVars,
                 expVars, cfgVars>>

CopyNext ==
  \/ AttachExperimentPath
  \/ RunFit
  \/ RunContributivity
  \/ RunReturn
  \/ Copy

CopySpec == CopyInit /\ [][CopyNext]_vars

\* ---------------------------------------- utils.get_scenario_params_list
\* the value a dataset name is mapped to: None, or a list of models
MappedNone == [none |-> TRUE, list |-> <<>>]
MappedList(l) == [none |-> FALSE, list |-> l]
MappedValues ==
  {MappedNone, MappedList(<<>>), MappedList(<<"random_initialization">>),
   MappedList(<<"random_initialization", "pretrained_model">>)}

\* dataset_name: a list of names, or a mapping from names to MappedValues
NameList(ns) == [is_dict |-> FALSE, names |-> ns, mapped |-> <<>>]
NameDict(ns, ms) == [is_dict |-> TRUE, names |-> ns, mapped |-> ms]

\* samples_split_option: 'random', or ['advanced', [n descriptions]]
SplitOptions == {[kind |-> "random", n |-> 0], [kind |-> "advanced", n |-> 2]}

\* one entry of the config: the lists of values of its keys; the two keys a
\* Scenario has a default for may be missing
BaseEntry ==
  [dataset_name |-> NameList(<<"mnist">>),
   partners_count |-> <<2>>,
   amounts_per_partner |-> << <<2, 2>> >>,
   has_split |-> TRUE,
   samples_split_option |-> <<[kind |-> "random", n |-> 0]>>,
   has_init |-> FALSE,
   init_model_from |-> <<>>]

RECURSIVE Flatten(_)
Flatten(ss) == IF ss = <<>> THEN <<>> ELSE Head(ss) \o Flatten(Tail(ss))

\* the first loop: an entry whose dataset_name is a dict becomes one entry
\* per key
InitModelFrom(v) == IF v.none THEN <<"random_initialization">> ELSE v.list

ExpandDatasets(entry) ==
  IF entry.dataset_name.is_dict
  THEN [k \in 1..Len(entry.dataset_name.names) |->
          [entry EXCEPT
             !.dataset_name = NameList(<<entry.dataset_name.names[k]>>),
             !.has_init = TRUE,
             !.init_model_from = InitModelFrom(entry.dataset_name.mapped[k])]]
  ELSE <<entry>>

\* for el in product(*params_list): scenario = dict(zip(params_name, el));
\* a missing key contributes no factor and no binding
Scenarios(entry) ==
  LET splits == IF entry.has_split THEN entry.samples_split_option
                ELSE <<[kind |-> "absent", n |-> 0]>>
      inits == IF entry.has_init THEN entry.init_model_from ELSE <<"absent">>
  IN Flatten([d \in 1..Len(entry.dataset_name.names) |->
       Flatten([p \in 1..Len(entry.partners_count) |->
         Flatten([a \in 1..Len(entry.amounts_per_partner) |->
           Flatten([o \in 1..Len(splits) |->
             [i \in 1..Len(inits) |->
                [dataset_name |-> entry.dataset_name.names[d],
                 partners_count |-> entry.partners_count[p],
                 amounts_per_partner |-> entry.amounts_per_partner[a],
                 has_split |-> entry.has_split,
                 samples_split_option |-> splits[o],
                 has_init |-> entry.has_init,
                 init_model_from |-> inits[i]]]])])])])

\* the checks made on one combination, in the order of the code
ScenarioParamsError(scenario) ==
  IF scenario.partners_count # Len(scenario.amounts_per_partner)
  THEN "Exception"
  ELSE IF ~scenario.has_split THEN "KeyError"
  ELSE IF scenario.samples_split_option.kind = "advanced"
          /\ scenario.partners_count # scenario.samples_split_option.n
  THEN "Exception"
  ELSE "none"

\* the whole function: the list returned, or the first exception raised
get_scenario_params_list(cfg) ==
  LET config_dataset == Flatten([k \in 1..Len(cfg) |-> ExpandDatasets(cfg[k])])
      all == Flatten([k \in 1..Len(config_dataset) |->
                        Scenarios(config_dataset[k])])
      bad == {k \in 1..Len(all) : ScenarioParamsError(all[k]) # "none"}
  IN IF bad = {}
     THEN [raised |-> "none", list |-> all]
     ELSE [raised |-> ScenarioParamsError(all[CHOOSE k \in bad :
                                                \A j \in bad : k <= j]),
           list |-> <<>>]

\* entries that differ in dataset_name
DatasetEntries ==
  {[BaseEntry EXCEPT !.dataset_name = d] :
     d \in {NameList(ns) : ns \in SeqsUpTo({"mnist", "cifar10"}, MaxValues)}
           \cup {NameDict(<<"mnist">>, <<v>>) : v \in MappedValues}
           \cup {NameDict(<<"mnist", "cifar10">>, <<v, w>>) :
                   v \in MappedValues, w \in MappedValues}}

\* entries that differ in the other lists
PartnerEntries ==
  {[BaseEntry EXCEPT !.partners_count = counts, !.amounts_per_partner = am,
                     !.has_split = hs, !.samples_split_option = so] :
     counts \in SeqsUpTo({1, 2}, MaxValues),
     am \in SeqsUpTo({<<4>>, <<2, 2>>}, MaxValues),
     hs \in BOOLEAN,
     so \in {<<o>> : o \in SplitOptions}}

ParamsInit ==
  /\ EngineIdle /\ ScenarioIdle /\ EstimatorIdle /\ ExperimentIdle /\ CopyIdle
  /\ \/ \E e \in DatasetEntries : config = <<e>>
     \/ \E e \in PartnerEntries : config = <<e>>
     \/ \E e \in PartnerEntries :
          config \in {c \in SeqsUpTo({e, BaseEntry}, MaxEntries) : Len(c) # 1}
  /\ scenario_params_list = <<>> /\ cfg_pc = "call" /\ cfg_error = "none"

\* scenario_params_list = utils.get_scenario_params_list(config)
GetScenarioParamsList ==
  /\ cfg_pc = "call"
  /\ LET r == get_scenario_params_list(config)
     IN /\ cfg_error' = r.raised
        /\ scenario_params_list' = r.list
        /\ cfg_pc' = IF r.raised = "none" THEN "returned" ELSE "raised"
  /\ UNCHANGED <<config, engineVars, scnVars, shapVars, cacheVars, expVars,
                 copyVars>>

ParamsNext == GetScenarioParamsList

ParamsSpec == ParamsInit /\ [][ParamsNext]_vars

\* ------------------------------------------------------------- claims
Federated == nodes_count > 1

Returned == pc = "done"

\* the loss recorded by the aggregated evaluation of epoch e (e >= 1)
LossAt(e) == global_val_loss[e]

\* the early-stopping decision of the current epoch has been taken
CheckedThisEpoch ==
  /\ pc \in {"train", "final", "evaluate", "done"}
  /\ Len(global_val_loss) = epoch

\* C1: the check at epoch e compares the loss of epoch e with the loss of
\* epoch e - patience, and the run halts exactly when the former is strictly
\* greater (stated for the epochs e > patience, where both losses exist).
C1_ComparesWithPatienceEpochsEarlier ==
  (Federated /\ is_early_stopping /\ CheckedThisEpoch /\ epoch > PATIENCE)
    => (early_stopped <=> LossAt(epoch) > LossAt(epoch - PATIENCE))

\* C2: the run halts at the first epoch e with loss[e] > loss[e - patience];
\* when it halts every partner has made exactly e local passes (epochs
\* 0..e-1) and none at epoch e or later.
C2_HaltsAtFirstRegression ==
  LET Regress(e) == e > PATIENCE /\ LossAt(e) > LossAt(e - PATIENCE)
  IN  /\ (Federated /\ is_early_stopping)
           => \A e \in 1..Len(global_val_loss) :
                 Regress(e) => (early_stopped /\ epoch = e)
      /\ (early_stopped /\ epoch > PATIENCE) => Regress(epoch)
      /\ early_stopped
           => \A i \in Nodes : fit_calls[i] = epoch /\ model_epoch[i] = epoch - 1

\* C3: early stopping ends a run only if is_early_stopping is set, only
\* right after the aggregation and evaluation of an epoch >= 1, and only with
\* at least PATIENCE aggregated evaluations recorded; without early stopping
\* a federated run trains every partner for exactly epoch_count epochs.
C3_EarlyStopOnlyWhenDue ==
  /\ early_stopped
       => /\ is_early_stopping
          /\ epoch >= 1
          /\ Len(global_val_loss) >= PATIENCE
          /\ Len(global_val_loss) = epoch
          /\ agg_calls >= epoch
          /\ \A i \in Nodes : fit_calls[i] = epoch
          /\ pc = "final" => /\ evaluated_model = aggregated_model
                             /\ agg_inputs = model_epoch
  /\ (Federated /\ ~is_early_stopping /\ pc \in {"final", "evaluate", "done"})
       => \A i \in Nodes : fit_calls[i] = epoch_count

C3_Witness ==
  /\ Returned /\ early_stopped /\ epoch < epoch_count - 1

C5_FinalModelIsLastEpochAggregate ==
  (Federated /\ pc \in {"evaluate", "done"})
    => /\ final_model = Frac(SumTo(model_list, nodes_count), nodes_count)
       /\ \A i \in Nodes : /\ model_list[i] \in Weights
                           /\ model_epoch[i] = fit_calls[i] - 1
                           /\ fit_calls[i] = IF early_stopped THEN epoch ELSE epoch_count
       /\ early_stopped => final_model = aggregated_model
       /\ Returned => /\ test_score = model_evaluation.acc
                      /\ test_score \in Accs
                      /\ evaluated_model = final_model
                      /\ final_eval_data = "x_test"

C5_Witness ==
  /\ Returned /\ Federated /\ early_stopped /\ final_model = aggregated_model

\* C6: epoch 0 has no aggregation and no aggregated evaluation and trains
\* fresh models; at an epoch e >= 1 every node model starts from the snapshot
\* aggregated at that epoch; in every executed epoch each partner makes
\* exactly one local pass, in list order, and its result replaces the
\* partner's previous snapshot.
C6_EpochProtocol ==
  (Federated /\ pc \notin {"start", "error"})
    => /\ (epoch = 0 /\ pc \in {"epoch", "train", "final"})
            => /\ agg_calls = 0 /\ global_val_loss = <<>>
               /\ aggregated_model = NoWeights /\ inloop_eval_data = "none"
       /\ \A i \in Nodes :
            /\ model_epoch[i] = 0 => start_weights[i] = Fresh
            /\ (model_epoch[i] >= 1 /\ model_epoch[i] = epoch)
                 => /\ start_weights[i] = aggregated_model
                    /\ Len(global_val_loss) = epoch
                    /\ pc \in {"train", "final"} => agg_inputs[i] = epoch - 1
       /\ pc = "epoch" => \A i \in Nodes : fit_calls[i] = epoch
       /\ pc = "train"
            => \A i \in Nodes :
                 IF i < node_index
                   THEN fit_calls[i] = epoch + 1 /\ model_epoch[i] = epoch
                   ELSE /\ fit_calls[i] = epoch
                        /\ model_epoch[i] = IF epoch = 0 THEN None ELSE epoch - 1
       /\ last_fit.node # 0
            => /\ model_list[last_fit.node] = last_fit.weights
               /\ fit_epochs = 1

C6_Witness ==
  /\ Federated /\ pc = "train" /\ epoch >= 2 /\ node_index = nodes_count
  /\ start_weights[1] = aggregated_model

\* C7: with one partner there is no aggregation and no aggregated
\* evaluation, one training call with epochs = epoch_count, and the score
\* returned is that model's evaluation; early stopping never cuts it short.
C7_SingleNodeIsPlainTraining ==
  nodes_count = 1
    => /\ pc \in {"start", "single_eval", "done"}
       /\ agg_calls = 0 /\ global_val_loss = <<>> /\ inloop_eval_data = "none"
       /\ ~early_stopped
       /\ pc \in {"single_eval", "done"}
            => /\ fit_calls = <<1>> /\ fit_epochs = epoch_count
               /\ start_weights[1] = Fresh /\ model # NoWeights
       /\ Returned => /\ test_score = model_evaluation.acc
                      /\ test_score \in Accs
                      /\ evaluated_model = model

C7_Witness ==
  /\ nodes_count = 1 /\ Returned /\ is_early_stopping /\ epoch_count > PATIENCE

\* the epochs of training a partner has run: calls of fit times their epochs
EpochsRun(i) == fit_calls[i] * fit_epochs

WithinBudget ==
  /\ pc # "error"
  /\ Len(global_val_loss) <= epoch_count - 1
  /\ pc # "start" => \A i \in Nodes : EpochsRun(i) <= epoch_count
  /\ (Returned /\ ~early_stopped)
       => EpochsRun(1) = epoch_count /\ EpochsRun(nodes_count) = epoch_count

\* C8: every run terminates and returns a test score; it never runs more than
\* epoch_count epochs, runs exactly epoch_count when early stopping does not
\* fire, and records at most epoch_count - 1 aggregated evaluations.
C8_TerminatesWithinBudget ==
  /\ <>(Returned /\ test_score \in Accs)
  /\ []WithinBudget

C8_Witness ==
  /\ Returned /\ Federated /\ ~early_stopped /\ is_early_stopping
  /\ Len(global_val_loss) = epoch_count - 1 /\ epoch_count > PATIENCE

\* the data-volume weighted mean of the snapshots ws with volumes vs
WeightedMean(ws, vs, n) ==
  Frac(SumTo([i \in 1..n |-> vs[i] * ws[i]], n), SumTo(vs, n))

\* C9: the aggregated snapshot is the mean of the partner snapshots weighted
\* by data_volume_i / sum of the data volumes (volumes 100, 200, 300 and
\* snapshots 1, 2, 3 give 1400/600).
C9_AggregateIsDataVolumeWeighted ==
  agg_result # NoWeights
    => agg_result = WeightedMean(agg_node_weights, agg_data_volume, nodes_count)

\* C10: the in-loop evaluation of the aggregated model, whose loss drives
\* early stopping, reads the global validation set and not the test set.
C10_InLoopEvaluationOnValidationSet ==
  inloop_eval_data \in {"none", "x_val"}

\* C11: an aggregation step (in-loop or final) leaves every partner's stored
\* snapshot as its last local training left it and writes its result only
\* into the newly created aggregated (or final) model.
C11_AggregationKeepsInputs ==
  [][(agg_calls' > agg_calls)
       => /\ model_list' = model_list
          /\ model_epoch' = model_epoch
          /\ model' = model
          /\ model_list'[last_fit.node] = last_fit.weights
          /\ pc = "epoch" => /\ aggregated_model' = Frac(SumTo(model_list, nodes_count), nodes_count)
                             /\ final_model' = final_model
          /\ pc = "final" => /\ final_model' = Frac(SumTo(model_list, nodes_count), nodes_count)
                             /\ aggregated_model' = aggregated_model]_vars

C11_Witness ==
  /\ Returned /\ Federated /\ agg_calls >= 2
  /\ model_list[1] # model_list[2]
  /\ final_model = Frac(model_list[1] + model_list[2], 2)

\* the steps of __init__ that precede instantiate_scenario_partners
BeforeLearningChecked == sc_pc \in {"config", "call", "partners", "learning"}
ConstructionErrors ==
  {"Exception", "ValueError", "AttributeError", "KeyError", "AssertionError"}

BadLearningConfig ==
  \/ multi_partner_learning_approach \notin MULTI_PARTNER_LEARNING_APPROACHES
  \/ aggregation_weighting \notin AGGREGATORS
  \/ epoch_count_arg <= 0
  \/ minibatch_count_arg <= 0
  \/ gradient_updates_per_pass_count <= 0

BadMethods ==
  \E k \in 1..Len(methods_arg) : methods_arg[k] \notin CONTRIBUTIVITY_METHODS

\* C12: a Scenario given an unknown learning approach, an unknown aggregation
\* weighting, an unregistered contributivity method or a non-positive
\* epoch, minibatch or gradient-update count never gets past the checks of
\* its constructor: the call ends in a construction error while no partner
\* exists, no learning approach was built and no run was started.
C12_BadConfigurationFailsAtConstruction ==
  /\ BadLearningConfig => BeforeLearningChecked \/ sc_pc = "raised"
  /\ BadLearningConfig \/ BadMethods =>
       /\ BeforeLearningChecked \/ sc_pc \in {"methods", "raised"}
       /\ partners_list = <<>> /\ mpl = "none"
       /\ run_count = 0 /\ contrib_calls = 0
       /\ sc_pc = "raised" => sc_error.type \in ConstructionErrors

C12_Witness ==
  /\ sc_pc = "raised" /\ sc_error.type = "AssertionError"
  /\ epoch_count_arg = 0 /\ is_quick_demo
  /\ multi_partner_learning_approach \in MULTI_PARTNER_LEARNING_APPROACHES
  /\ aggregation_weighting \in AGGREGATORS
  /\ partners_list = <<>> /\ mpl = "none"

\* C13: a Scenario with fewer than 2 partners and a non-empty list of
\* contributivity methods is refused at construction: it is never
\* constructed, no training is run for it and Scenario.run never reaches
\* the computation of a contributivity method.
C13_SinglePartnerRejectedAtConstruction ==
  (partners_count < 2 /\ methods_arg # <<>>) =>
     /\ sc_pc \notin {"constructed", "contributivity"}
     /\ mpl = "none"
     /\ contrib_calls = 0

\* C14: whatever the characteristic function v, the exact Shapley values of
\* the n partners add up to v(all partners) - v(no partner); with the values
\* held as multiples of 1/n!, their sum is n! (v(N) - v({})).
C14_ShapleyEfficiency ==
  shapley_pc = "done" =>
     SumTo(shapley_values, shapley_n)
       = Fact(shapley_n) * (characteristic[1..shapley_n] - characteristic[{}])

C14_Witness ==
  /\ shapley_pc = "done" /\ shapley_n = 3
  /\ characteristic[{}] = 1 /\ characteristic[1..3] = 0
  /\ characteristic[{1}] = 1 /\ characteristic[{2}] = 0
  /\ shapley_values[1] # shapley_values[2]
  /\ SumTo(shapley_values, 3) = 0 - Fact(3)

\* the keys trained so far by the estimator in use
Trained == BagToSet(trainings)

\* C15: within one compute_contributivity call every coalition, taken as
\* its set of partner ids, is trained at most once whatever is requested and
\* by whichever worker, so at most 2^n trainings happen; every value served
\* from the cache was trained during the same call, on the estimator that
\* Scenario.run created for that method.
C15_CoalitionTrainedOncePerCall ==
  /\ \A k \in Trained : CopiesIn(k, trainings) = 1
  /\ \A k1, k2 \in Trained : Members(k1) = Members(k2) => k1 = k2
  /\ BagCardinality(trainings) <= 2 ^ cache_n
  /\ \A k \in charac_cache : \E t \in Trained : Members(t) = Members(k)
  /\ last_answer.source = "cache" =>
       \E t \in Trained : Members(t) = Members(last_answer.key)

C15_Witness ==
  /\ requests_from = "shapley" /\ cache_n = 4 /\ call_count = 2
  /\ pending = <<>> /\ \A w \in Workers : ~in_progress[w].busy
  /\ BagCardinality(trainings) = 2 ^ 4 - 1
  /\ last_answer.source = "cache"

\* C16: to_dataframe reports contributivity positionally: for each result
\* of the scenario and each partner index i it produces one row whose
\* partner_id is i and which carries contributivity_scores[i], scores_std[i]
\* and amounts_per_partner[i], partners_count rows per result in list order;
\* a scenario without results gives one single row.
C16_RowsAlignedWithPartners ==
  df # <<>> =>
    IF contributivity_list = <<>> THEN Len(df) = 1
    ELSE /\ Len(df) = partners_count * Len(contributivity_list)
         /\ \A c \in 1..Len(contributivity_list) : \A i \in 0..(partners_count - 1) :
              LET row == df[(c - 1) * partners_count + i + 1]
                  res == contributivity_list[c]
              IN /\ row.partner_id = i
                 /\ row.contributivity_method = res.name
                 /\ row.contributivity_score = res.contributivity_scores[i + 1]
                 /\ row.contributivity_std = res.scores_std[i + 1]
                 /\ row.dataset_fraction_of_partner = amounts_per_partner[i + 1]

C16_Witness ==
  /\ Len(df) = 4 /\ partners_count = 2 /\ Len(contributivity_list) = 2
  /\ amounts_per_partner = <<1, 3>>
  /\ contributivity_list[1].contributivity_scores = <<0, 1>>
  /\ contributivity_list[2].contributivity_scores = <<1, 0>>
  /\ df[2].partner_id = 1 /\ df[2].contributivity_score = 1
  /\ df[3].partner_id = 0 /\ df[3].contributivity_score = 1
  /\ df[4].dataset_fraction_of_partner = 3

\* C17: repeats of a scenario share no mutable state: whenever a call of
\* Scenario.run has returned, contributivity_list holds exactly one result
\* per configured method, each computed during the repeat that just ended,
\* and no repeat fails on the output folder an earlier repeat created.
C17_RepeatsShareNoState ==
  /\ (sc_pc = "constructed" /\ run_count >= 1) =>
       /\ Len(contributivity_list) = Len(contributivity_methods)
       /\ \A k \in 1..Len(contributivity_list) :
            contributivity_list[k].run = run_count - 1
  /\ sc_error.type # "FileExistsError"

\* the keyword names that are neither known nor start with 'mpl_'
UnknownKwargs == {x \in kwargs : x \notin params_known /\ (Len(x) = 0 \/ x[1] # "mpl_")}
ParamsAccepted == sc_pc \notin {"config", "call", "raised"} \/
                  (sc_pc = "raised" /\ sc_error.names = {})

\* C18: every extra keyword is handled in exactly one way: a known name is
\* accepted, a name starting with 'mpl_' is forwarded to the learning
\* approach under its name without that leading 'mpl_' (the rest of the name
\* untouched), and any other name makes construction raise an exception
\* that lists all unrecognised names.
C18_KeywordsHandledInOneOfThreeWays ==
  /\ ParamsAccepted => UnknownKwargs = {}
  /\ (sc_pc = "raised" /\ sc_error.names # {}) => sc_error.names = UnknownKwargs
  /\ sc_pc \in {"provision", "split", "constructed", "contributivity"} =>
       mpl_kwargs = {<<Tail(x), x>> : x \in kwargs \ (params_known \cup UnknownKwargs)}

\* __init__ has returned a Scenario (it may be running, or a run may have failed)
Constructed ==
  \/ sc_pc \in {"constructed", "contributivity"}
  \/ sc_pc = "raised" /\ sc_error.type \in {"FileExistsError", "ComputeFailure",
                                            "InsufficientPartners"}

LengthMismatch == Len(amounts_per_partner) # partners_count

\* C19: a constructed Scenario has as many amounts as partners and as many
\* Partner objects, with ids 0..partners_count-1 in list order; a length
\* mismatch is stopped by get_scenario_params_list when the scenario comes
\* from a config file and by the constructor otherwise, before any partner
\* exists; and once the Scenario is constructed its partner list never
\* changes, a further instantiate_scenario_partners only raising.
C19_PartnersFixedAtConstruction ==
  /\ [](/\ Constructed =>
             /\ Len(amounts_per_partner) = partners_count
             /\ Len(partners_list) = partners_count
             /\ \A i \in 1..Len(partners_list) : partners_list[i].id = i - 1
        /\ LengthMismatch =>
             /\ partners_list = <<>>
             /\ IF from_config THEN sc_pc \in {"config", "raised"}
                ELSE sc_pc \in {"call", "partners", "raised"})
  /\ [][Constructed =>
          /\ partners_list' = partners_list
          /\ partners_count' = partners_count
          /\ amounts_per_partner' = amounts_per_partner]_vars

C19_Witness ==
  /\ sc_pc = "constructed" /\ sc_error.type = "AlreadyInitialized"
  /\ run_count = 1
  /\ partners_count = 2 /\ amounts_per_partner = <<1, 3>>
  /\ Len(partners_list) = 2
  /\ partners_list[1].id = 0 /\ partners_list[2].id = 1
  /\ partners_list[2].batch_size # None

\* the minibatch count in force when compute_batch_sizes runs
MinibatchInForce ==
  IF is_quick_demo THEN QUICK_DEMO_MINIBATCH_COUNT ELSE minibatch_count_arg

\* floor(len / updates) for the given partner, before clipping
UpdatesPerPass ==
  IF partners_count = 1 THEN gradient_updates_per_pass_count
  ELSE MinibatchInForce * gradient_updates_per_pass_count

\* C20: once compute_batch_sizes has run, each partner's batch_size is an
\* integer between 1 and MAX_BATCH_SIZE, whatever its number of training
\* samples (0 included): floor(len(x_train) / gradient_updates_per_pass_count)
\* for a single partner, floor(len(x_train) / (minibatch_count *
\* gradient_updates_per_pass_count)) for several, brought into that range,
\* with minibatch_count as the quick-demo override left it.
C20_BatchSizeClipped ==
  sc_pc \in {"constructed", "contributivity"} =>
    \A i \in 1..Len(partners_list) :
      LET size == partners_list[i].batch_size
          raw == partners_list[i].x_train \div UpdatesPerPass
      IN /\ size \in 1..MAX_BATCH_SIZE
         /\ raw < 1 => size = 1
         /\ raw > MAX_BATCH_SIZE => size = MAX_BATCH_SIZE
         /\ raw \in 1..MAX_BATCH_SIZE => size = raw

C20_Witness ==
  /\ sc_pc = "constructed" /\ partners_count = 2
  /\ is_quick_demo /\ minibatch_count_arg = 1
  /\ gradient_updates_per_pass_count = 1
  /\ partners_list[1].x_train = 0 /\ partners_list[1].batch_size = 1
  /\ partners_list[2].x_train = 5 /\ partners_list[2].batch_size = 2

\* C21: add_scenario appends its argument, with the experiment's path
\* attached, exactly when the argument is a Scenario; for anything else it
\* raises the "not an instance" exception and appends nothing; for every
\* Experiment, one built without a name included
C21_AddScenarioAppendsExactlyScenarios ==
  last_add.kind # "none" =>
    IF last_add.kind = "Scenario"
    THEN /\ last_add.appended
         /\ last_add.raised = "none"
         /\ scenarios_list # <<>>
         /\ scenarios_list[Len(scenarios_list)].experiment_path = experiment_path
    ELSE /\ ~last_add.appended
         /\ last_add.raised = "Exception"

\* the candidates define_experiment_path goes through: name + timestamp,
\* then one more "_bis" each
FirstFree(n, m, fs) ==
  CHOOSE b \in 0..(Cardinality(fs) + 1) :
    /\ Path(n, m, b) \notin fs
    /\ \A c \in 0..(b - 1) : Path(n, m, c) \in fs

PathsReturnedAreNew ==
  /\ exp_error # "FileExistsError"
  /\ \A i \in 1..Len(path_log) :
       LET r == path_log[i]
       IN /\ r.path \notin r.before
          /\ r.path \in folders
          /\ r.path.name = "exp"
          /\ r.path.minute = r.minute
          /\ r.path.bis = FirstFree("exp", r.minute, r.before)
  /\ \A i, j \in 1..Len(path_log) : i # j => path_log[i].path # path_log[j].path

\* C22: define_experiment_path terminates and returns a folder that did not
\* exist before the call and exists after it: from name + timestamp it adds
\* one "_bis" per existing candidate until a path is free, never returns an
\* existing folder, and two calls in the same minute return different
\* folders
C22_DefinePathReturnsNewFolder ==
  /\ []PathsReturnedAreNew
  /\ (exp_pc = "define_path") ~> (exp_pc # "define_path")

C22_Witness ==
  \E i, j \in 1..Len(path_log) :
    /\ i < j
    /\ path_log[i].minute = path_log[j].minute
    /\ path_log[i].before # {}
    /\ path_log[i].path.bis > 0
    /\ path_log[j].path.bis > path_log[i].path.bis

\* the initialisation from a config file was aborted by the constructor
ConfigAborted == exp_pc = "raised" /\ exp_error \in {"Exception", "ValueError"}

\* C23: init_experiment_from_config_file creates one Scenario per
\* combination, with scenario_id its 1-based index and the experiment's path
\* attached, scenarios_list holding them in that order; only a combination
\* the constructor rejects aborts it, and then before any scenario is run
C23_OneScenarioPerCombination ==
  /\ (exp_pc = "config" \/ ConfigAborted) =>
       /\ Len(scenarios_list) = config_index - 1
       /\ \A i \in 1..Len(scenarios_list) :
            scenarios_list[i] = Added(i, experiment_path)
  /\ ConfigAborted =>
       /\ ~exp_params_list[config_index].accepted
       /\ run_log = <<>>

\* the runs of k whole repeats over n scenarios, then of the first j
\* scenarios of the next repeat: repeats outside, scenarios in list order
RunsInOrder(k, n, j) ==
  [i \in 1..(k * n + j) |-> <<(i - 1) \div (IF n = 0 THEN 1 ELSE n),
                              (i - 1) % (IF n = 0 THEN 1 ELSE n)>>]

\* C24: run_experiment runs every scenario once per repeat, repeats outside
\* and scenarios in list order, nb_repeats * len(scenarios_list) runs in
\* all; the rows of a run, tagged with repeat_index and scenario_index, are
\* in results.csv before the next run starts, the header written by the
\* first append only
C24_EveryScenarioRunOncePerRepeat ==
  /\ exp_pc \in {"running", "done"} =>
       /\ run_log = RunsInOrder(repeat_idx, Len(scenarios_list), scenario_idx)
       /\ Len(results_csv) = Len(run_log)
       /\ \A i \in 1..Len(results_csv) :
            /\ results_csv[i].repeat_index = run_log[i][1]
            /\ results_csv[i].scenario_index = run_log[i][2]
            /\ results_csv[i].header = (i = 1)
  /\ exp_pc = "done" => Len(run_log) = nb_repeats * Len(scenarios_list)
  /\ ~(exp_pc = "raised" /\ exp_error = "AttributeError"
       /\ experiment_path # Unset)

\* the results the run in progress has appended so far
ThisRun == SelectSeq(contributivity_list, LAMBDA c : c.run = run_count)

\* a contributivity method of the run in progress raised
MethodFailed ==
  /\ sc_pc = "raised"
  /\ sc_error.type \in {"ComputeFailure", "InsufficientPartners"}

MethodsInOrder ==
  /\ (sc_pc = "contributivity" \/ MethodFailed) =>
       /\ mpl = "fitted"
       /\ Len(ThisRun) = method_index - 1
       /\ \A k \in 1..Len(ThisRun) : ThisRun[k].name = contributivity_methods[k]
  /\ MethodFailed => method_index <= Len(contributivity_methods)
  /\ \A i, j \in 1..Len(contributivity_list) :
       i # j => contributivity_list[i].object # contributivity_list[j].object

MethodStep ==
  /\ contrib_calls' # contrib_calls =>
       /\ sc_pc = "contributivity" /\ mpl = "fitted"
       /\ contrib_calls' = contrib_calls + 1
  /\ (sc_pc # "contributivity" /\ sc_pc' = "contributivity") =>
       /\ mpl' = "fitted"
       /\ contrib_calls' = contrib_calls
       /\ contributivity_list' = contributivity_list
  /\ Len(contributivity_list') > Len(contributivity_list) =>
       /\ contrib_calls' = contrib_calls + 1
       /\ sc_error' = NoError /\ sc_pc' = "contributivity"
       /\ contributivity_list' =
            Append(contributivity_list,
                   [name |-> contributivity_methods[method_index],
                    run |-> run_count, object |-> contrib_calls'])

\* C25: Scenario.run fits the main learning approach before any
\* contributivity method starts, then computes the configured methods one
\* at a time in the configured order, each on a new Contributivity object,
\* appending a result only after its computation returned; a method that
\* fails leaves no result for itself or for any later method
C25_MethodsAfterFitInOrder ==
  /\ []MethodsInOrder
  /\ [][MethodStep]_vars

C25_Witness ==
  /\ MethodFailed /\ sc_error.type = "ComputeFailure"
  /\ Len(contributivity_methods) = 2
  /\ method_index = 2
  /\ Len(ThisRun) = 1

\* what the copy is to share with the original, the overrides applied
SameConfiguration ==
  /\ the_copy.partners_count = partners_count
  /\ the_copy.amounts_per_partner = amounts_per_partner
  /\ the_copy.aggregation_weighting = aggregation_weighting
  /\ the_copy.contributivity_methods = contributivity_methods
  /\ the_copy.minibatch_count = minibatch_count
  /\ the_copy.is_quick_demo = is_quick_demo
  /\ the_copy.epoch_count =
       IF is_quick_demo THEN scenario_epoch_count
       ELSE Overridden(copy_kwargs, "epoch_count", scenario_epoch_count)

QuickDemoChanged ==
  "is_quick_demo" \in copy_kwargs.given
    /\ copy_kwargs.is_quick_demo # is_quick_demo

\* C26: copy() returns a new Scenario with the configuration of the
\* original except for the overrides, the forwarded mpl_* options included,
\* whether or not the original was added to an experiment or already run;
\* asking for another is_quick_demo raises ValueError
C26_CopyKeepsConfiguration ==
  copy_pc # "idle" =>
    IF QuickDemoChanged
    THEN copy_pc = "raised" /\ copy_error = "ValueError"
    ELSE /\ copy_pc = "returned"
         /\ SameConfiguration
         /\ the_copy.mpl_kwargs = mpl_kwargs

Range(q) == {q[k] : k \in 1..Len(q)}

\* init_model_from as the statement has it: the default when the mapped
\* value is empty
ClaimedInits(v) ==
  IF v.none \/ v.list = <<>> THEN <<"random_initialization">> ELSE v.list

\* the number of elements of the Cartesian product of an entry's lists, a
\* dict of dataset names counting as one entry per name
ClaimedCount(entry) ==
  Len(entry.partners_count) * Len(entry.amounts_per_partner)
    * (IF entry.has_split THEN Len(entry.samples_split_option) ELSE 1)
    * (IF entry.dataset_name.is_dict
       THEN SeqSum([k \in 1..Len(entry.dataset_name.mapped) |->
                      Len(ClaimedInits(entry.dataset_name.mapped[k]))])
       ELSE Len(entry.dataset_name.names)
              * (IF entry.has_init THEN Len(entry.init_model_from) ELSE 1))

\* some combination of the entry has partners_count # len(amounts_per_partner)
AmountsMismatch(entry) ==
  /\ ClaimedCount(entry) > 0
  /\ \E p \in Range(entry.partners_count), a \in Range(entry.amounts_per_partner) :
       p # Len(a)

\* some combination of the entry has an advanced split of another length
AdvancedMismatch(entry) ==
  /\ ClaimedCount(entry) > 0 /\ entry.has_split
  /\ \E p \in Range(entry.partners_count), o \in Range(entry.samples_split_option) :
       o.kind = "advanced" /\ p # o.n

\* the dict binds the names of an entry to values the entry lists
BoundBy(scenario, entry) ==
  /\ scenario.dataset_name \in Range(entry.dataset_name.names)
  /\ scenario.partners_count \in Range(entry.partners_count)
  /\ scenario.amounts_per_partner \in Range(entry.amounts_per_partner)
  /\ scenario.has_split = entry.has_split
  /\ entry.has_split => scenario.samples_split_option \in Range(entry.samples_split_option)
  /\ entry.dataset_name.is_dict =>
       \E k \in 1..Len(entry.dataset_name.names) :
         /\ scenario.dataset_name = entry.dataset_name.names[k]
         /\ scenario.has_init
         /\ scenario.init_model_from \in Range(ClaimedInits(entry.dataset_name.mapped[k]))

\* C27: get_scenario_params_list returns one dict per element of the
\* Cartesian product of each entry's lists, each binding the entry's names
\* to listed values; a dataset_name mapping gives one entry per name, with
\* init_model_from = ['random_initialization'] when the mapped value is
\* empty; it raises when a combination has
\* partners_count # len(amounts_per_partner)
C27_OneDictPerCombination ==
  cfg_pc # "call" =>
    IF \E k \in 1..Len(config) : AmountsMismatch(config[k])
    THEN cfg_pc = "raised"
    ELSE IF \E k \in 1..Len(config) : AdvancedMismatch(config[k])
    THEN cfg_pc = "raised"
    ELSE /\ cfg_pc = "returned"
         /\ Len(scenario_params_list) =
              SeqSum([k \in 1..Len(config) |-> ClaimedCount(config[k])])
         /\ \A i \in 1..Len(scenario_params_list) :
              \E k \in 1..Len(config) :
                BoundBy(scenario_params_list[i], config[k])
====
